---- MODULE Spec2Model ----
(***************************************************************************)
(* Boards, tasks and comments of the kanMind backend as a state machine.   *)
(* The database tables are the state.  A view handler of                   *)
(* boards_app/api/views.py runs as a chain of steps, one step for every    *)
(* SQL statement it sends in autocommit mode and one for every             *)
(* transaction.atomic() block; between two steps of one request the steps  *)
(* of another request may run.  `pending` holds, per worker, the request   *)
(* it is serving: where its handler stands and what it has read so far.    *)
(* The step that ends a handler stores the request and the kind of its     *)
(* response in `last`; Reply then empties `last`.                          *)
(* The specifications of the single operations enter a handler the way     *)
(* APIView.dispatch does, with the authenticated requester and the keyword  *)
(* arguments the handler reads (board_id, task_id, pk); what binds them is  *)
(* outside these specifications.  add_member and remove_member, whose       *)
(* signature takes only `pk` while get_object reads `board_id`, have no     *)
(* keyword arguments they can be entered with.  SpecRoutes is the program   *)
(* behind the URL patterns of urls.py as they are written: there a handler  *)
(* gets the keyword arguments its pattern binds, and runs only when they    *)
(* are the ones it takes and reads.                                         *)
(* A list handler also stores the list it returns; rows the query leaves   *)
(* unordered come in any order.  `now` is the clock auto_now_add reads.    *)
(* Requests are served one after another (one worker), except in SpecRace, *)
(* SpecUpdate, SpecSave and SpecMembers, which serve two at a time.        *)
(***************************************************************************)
EXTENDS Integers, FiniteSets, Sequences, TLC

\* The identities registered at the start (auth_app.User rows); no handler
\* deletes a user.
Users == {1, 2, 3}
\* User ids a client may send: the registered ones and the id that the next
\* registration gives, which resolves to nobody before it.
UserIds == Users \cup {4}

\* An e-mail address: its name, and whether its domain part is written with
\* upper-case letters.
Address(n, upper) == [name |-> n, upper |-> upper]
\* BaseUserManager.normalize_email: the domain part is put in lower case.
normalize_email(a) == [a EXCEPT !.upper = FALSE]
\* UserManager.create_user(username=email, email=email, ...): the row it
\* inserts has the address as sent for username and normalised for email.
create_user(a) == [username |-> a, email |-> normalize_email(a)]
\* The rows of the users registered at the start.
RegisteredUsers == [u \in Users |-> create_user(Address(u, FALSE))]

MaxBoards == 1
MaxTasks == 2
MaxComments == 2
MaxTime == 2

BoardIds == 1..MaxBoards
TaskIds == 1..MaxTasks
CommentIds == 1..MaxComments
\* Readings of the clock (timezone.now()), in ticks of its resolution.
Times == 1..MaxTime

Titles == {"t1", "t2"}
Contents == {"c1", "c2"}

\* models.py, Task.STATUS_CHOICES and Task.PRIORITY_CHOICES
STATUS_CHOICES == {"to-do", "in-progress", "review", "done"}
PRIORITY_CHOICES == {"low", "medium", "high"}

\* An optional request field: <<>> when the client omits it, <<v>> when it sends v.
Omitted == <<>>
Given(v) == <<v>>
Opt(S) == {Omitted} \cup {Given(v) : v \in S}

\* The workers that serve requests, each one request at a time; Single is the
\* one worker of a server that serves its requests one after another.
Slots == {1, 2}
Single == {1}

VARIABLES
  boards,       \* Board rows by id: [owner, title, members]     (models.py, Board)
  nextBoard,    \* the id the next Board row gets (AutoField)
  tasks,        \* Task rows by id: [board, status, priority, assignee]
  nextTask,     \* the id the next Task row gets
  comments,     \* Comment rows by id: [task, author, content, created_at]
  nextComment,  \* the id the next Comment row gets
  now,          \* the server's clock, read by auto_now_add (timezone.now())
  users,        \* auth_app.User rows by id: [username, email]
  pending,      \* per worker, the request it is serving, or NoPending
  last          \* the request just answered and its response

vars == <<boards, nextBoard, tasks, nextTask, comments, nextComment, now, users, pending, last>>

\* Response kinds: the four error kinds of the API contract, success, and an
\* unhandled exception (HTTP 500).
OK == "ok"
NotFound == "NotFound"
NotAuthorized == "NotAuthorized"
ValidationFailed == "ValidationFailed"
InvalidOperation == "InvalidOperation"
ServerError == "ServerError"

\* The record of the request just answered: handler, requester, id in the URL,
\* one more request value (0 when the handler has none) and the response kind.
\* `sent` holds the optional fields the request carried, by name, and `body`
\* the list a list handler returns; both are empty unless the handler fills them.
Resp(op, u, id, arg, kind) ==
  [op |-> op, user |-> u, id |-> id, arg |-> arg, kind |-> kind,
   sent |-> << >>, body |-> << >>]

\* A request as a handler receives it: `data` is request.data.  The handler's
\* local variables are `pc` (the statement it has reached), `obj` (the row
\* get_object or a lookup has read), `rows` (rows a query has collected),
\* `body` (the list being serialized) and `k` (the row of it being serialized).
Request(op, u, id, arg, data) ==
  [op |-> op, user |-> u, id |-> id, arg |-> arg, data |-> data,
   pc |-> "received", obj |-> << >>, rows |-> {}, body |-> << >>, k |-> 0]

\* The response of kind `kind` to request r.
Answer(r, kind) == Resp(r.op, r.user, r.id, r.arg, kind)

\* The fields of request.data the client sent, with their values.
Sent(data) ==
  [f \in {g \in DOMAIN data : data[g] # Omitted} |-> data[f][1]]

\* Worker i has served no request, or has forgotten the one it served.
NoPending == [op |-> "none", pc |-> "answered"]
\* Worker i has answered its request and takes the next one.
Free(i) == pending[i].pc = "answered"
\* A new request goes to the first worker that is free.
Accepts(i) == Free(i) /\ \A j \in Slots : j < i => ~Free(j)

\* The shape of the tables: the columns of models.py that the handlers read,
\* a null assignee written 0.
TypeOK ==
  /\ nextBoard \in Nat \ {0}
  /\ DOMAIN boards \subseteq 1..(nextBoard - 1)
  /\ \A b \in DOMAIN boards :
       boards[b] \in [owner : DOMAIN users, title : Titles, members : SUBSET DOMAIN users]
  /\ nextTask \in 1..(MaxTasks + 1)
  /\ DOMAIN tasks \subseteq 1..(nextTask - 1)
  /\ \A t \in DOMAIN tasks :
       /\ tasks[t] \in [board : DOMAIN boards, status : STATUS_CHOICES,
                        priority : PRIORITY_CHOICES, assignee : DOMAIN users \cup {0}]
  /\ nextComment \in 1..(MaxComments + 1)
  /\ DOMAIN comments \subseteq 1..(nextComment - 1)
  /\ \A c \in DOMAIN comments :
       comments[c] \in [task : DOMAIN tasks, author : DOMAIN users, content : Contents,
                         created_at : 1..now]
  /\ now \in Times
  /\ Users \subseteq DOMAIN users /\ DOMAIN users \subseteq UserIds
  /\ DOMAIN pending = Slots

\* No response is being sent: the server takes the next step.
NoRequest == Resp("none", 0, 0, 0, OK)
Idle == last = NoRequest

\* Worker i takes request r up at statement pc, having read obj.
Begin(i, r, pc, obj) ==
  /\ pending' = [pending EXCEPT ![i] = [r EXCEPT !.pc = pc, !.obj = obj]]
  /\ last' = last
\* Worker i goes on to statement pc.
Goto(i, pc) ==
  /\ pending' = [pending EXCEPT ![i].pc = pc]
  /\ last' = last
\* Worker i sends response resp and is free again.
Finish(i, resp) ==
  /\ pending' = [pending EXCEPT ![i] = NoPending]
  /\ last' = resp
\* A request is answered by the statement that takes it up.
Refuse(resp) ==
  /\ pending' = pending
  /\ last' = resp

----------------------------------------------------------------------------
\* Many-to-many manager of Board.members.
M2MSet(b, ms) == [b EXCEPT !.members = ms]
M2MAdd(b, u) == [b EXCEPT !.members = @ \cup {u}]
M2MRemove(b, u) == [b EXCEPT !.members = @ \ {u}]

\* obj.members.all(): the rows of the join table for board id; there are none
\* once the board is deleted (the join rows go with it).
MembersOf(id) == IF id \in DOMAIN boards THEN boards[id].members ELSE {}

\* The Board instance a SELECT of the row gives: its columns, not its members.
BoardRow(id) == [title |-> boards[id].title, owner |-> boards[id].owner]

\* The board as a permission test sees it: the owner of the instance read
\* before, the members as the join table holds them now.
Seen(row, id) == [owner |-> row.owner, members |-> MembersOf(id)]

\* permissions.py, IsBoardOwnerOrMember.has_object_permission
IsBoardOwnerOrMember(u, b) == b.owner = u \/ u \in b.members

\* permissions.py, IsBoardOwner.has_object_permission (declared, used by no view)
IsBoardOwner(u, b, safe) ==
  IF safe THEN b.owner = u \/ u \in b.members ELSE b.owner = u

\* BoardViewSet.permission_classes
BoardPermission(u, b, safe) == IsBoardOwnerOrMember(u, b)

\* Mutant of IsTaskBoardMember: only the member set is consulted.
IsTaskBoardMember_MembersOnly(u, board) == u \in board.members

\* permissions.py, IsTaskBoardMember.has_object_permission: board is the board
\* of the task, or of the comment's task, that get_object read.
IsTaskBoardMember(u, board) == board.owner = u \/ u \in board.members

\* Mutant of OwnerOrInMembers: the test is missing, everybody passes.
OwnerOrInMembers_Anybody(u, b) == TRUE

\* The inline check of TaskSerializer.create and CommentViewSet.list
OwnerOrInMembers(u, b) == ~(b.owner # u /\ u \notin b.members)

\* on_delete=CASCADE of Task.board and Comment.task
TasksOfBoard(b) == {t \in DOMAIN tasks : tasks[t].board = b}
CommentsOfTasks(ts) == {c \in DOMAIN comments : comments[c].task \in ts}
Restrict(f, S) == [x \in S |-> f[x]]

\* Mutant of TaskFieldsValid: the fields are plain strings, any value passes.
TaskFieldsValid_AnyValue(status, priority) == TRUE

\* TaskSerializer field validation: the choice fields accept only their choices.
TaskFieldsValid(status, priority) ==
  /\ status = Omitted \/ status[1] \in STATUS_CHOICES
  /\ priority = Omitted \/ priority[1] \in PRIORITY_CHOICES

OrElse(opt, default) == IF opt = Omitted THEN default ELSE opt[1]

\* The rows of a queryset as the database may return them: every enumeration
\* of S when the query has no ORDER BY (Board and Task declare no ordering).
Orderings(S) ==
  {f \in [1..Cardinality(S) -> S] : \A i, j \in DOMAIN f : i # j => f[i] # f[j]}

\* Mutant of CommentOrdering: the ordering is ascending, oldest first.
CommentOrdering_Ascending(S) ==
  {f \in Orderings(S) :
     \A i, j \in DOMAIN f : i < j => comments[f[i]].created_at <= comments[f[j]].created_at}

\* Comment.Meta.ordering = ['-created_at']: ORDER BY created_at DESC and no
\* second key, so rows with equal created_at come in any order.
CommentOrdering(S) ==
  {f \in Orderings(S) :
     \A i, j \in DOMAIN f : i < j => comments[f[i]].created_at >= comments[f[j]].created_at}

----------------------------------------------------------------------------
\* The database after migration and registration of the users: no rows.
Init ==
  /\ boards = << >>
  /\ nextBoard = 1
  /\ tasks = << >>
  /\ nextTask = 1
  /\ comments = << >>
  /\ nextComment = 1
  /\ now = 1
  /\ users = RegisteredUsers
  /\ pending = [i \in Slots |-> NoPending]
  /\ last = NoRequest

\* The clock advances by one tick.
Tick ==
  /\ Idle
  /\ now < MaxTime
  /\ now' = now + 1
  /\ UNCHANGED <<boards, nextBoard, tasks, nextTask, comments, nextComment, pending, last, users>>

\* The response has been sent.
Reply ==
  /\ ~Idle
  /\ last' = NoRequest
  /\ UNCHANGED <<boards, nextBoard, tasks, nextTask, comments, nextComment, now, pending, users>>

----------------------------------------------------------------------------
\* BoardViewSet.create up to the INSERT: the serializer validates the member
\* list, perform_create -> BoardSerializer.create inserts the row
\* (Board.objects.create); the new board has no members yet.
BoardCreate(i, u, title, members) ==
  /\ Idle
  /\ Accepts(i)
  /\ nextBoard <= MaxBoards
  /\ LET r == Request("board_create", u, nextBoard, 0, [title |-> title, members |-> members])
     IN IF ~(members \subseteq DOMAIN users)
          THEN /\ Refuse(Resp("board_create", u, 0, 0, ValidationFailed))
               /\ UNCHANGED <<boards, nextBoard>>
          ELSE /\ boards' = boards @@ (nextBoard :> [owner |-> u, title |-> title, members |-> {}])
               /\ nextBoard' = nextBoard + 1
               /\ Begin(i, r, "set_members", [title |-> title, owner |-> u])
  /\ UNCHANGED <<tasks, nextTask, comments, nextComment, now, users>>

\* A write to the join table of board id.  The join row's foreign key needs
\* the board row: adding a row for a board that is gone raises IntegrityError.
\* `added` is the set of rows the write inserts.
JoinWriteFails(id, added) == id \notin DOMAIN boards /\ added # {}

\* BoardSerializer.create, board.members.set(members): one transaction that
\* makes the member set the list sent.  views.py:57 catches every exception
\* and answers 500.
BoardCreateSetMembers(i) ==
  /\ Idle
  /\ pending[i].op = "board_create"
  /\ pending[i].pc = "set_members"
  /\ LET r == pending[i]
     IN IF JoinWriteFails(r.id, r.data.members)
          THEN /\ Finish(i, Answer(r, ServerError))
               /\ boards' = boards
          ELSE /\ boards' = IF r.id \in DOMAIN boards
                              THEN [boards EXCEPT ![r.id] = M2MSet(@, r.data.members)]
                              ELSE boards
               /\ Goto(i, "add_owner")
  /\ UNCHANGED <<nextBoard, tasks, nextTask, comments, nextComment, now, users>>

\* BoardSerializer.create, board.members.add(board.owner)
BoardCreateAddOwner(i) ==
  /\ Idle
  /\ pending[i].op = "board_create"
  /\ pending[i].pc = "add_owner"
  /\ LET r == pending[i]
     IN IF JoinWriteFails(r.id, {r.obj.owner})
          THEN /\ Finish(i, Answer(r, ServerError))
               /\ boards' = boards
          ELSE /\ boards' = [boards EXCEPT ![r.id] = M2MAdd(@, r.obj.owner)]
               /\ Goto(i, "add_user")
  /\ UNCHANGED <<nextBoard, tasks, nextTask, comments, nextComment, now, users>>

\* BoardViewSet.perform_create, board.members.add(self.request.user), and the
\* 201 response (its counts are read from the tables and change nothing).
BoardCreateAddUser(i) ==
  /\ Idle
  /\ pending[i].op = "board_create"
  /\ pending[i].pc = "add_user"
  /\ LET r == pending[i]
     IN IF JoinWriteFails(r.id, {r.user})
          THEN /\ Finish(i, Answer(r, ServerError))
               /\ boards' = boards
          ELSE /\ boards' = [boards EXCEPT ![r.id] = M2MAdd(@, r.user)]
               /\ Finish(i, Answer(r, OK))
  /\ UNCHANGED <<nextBoard, tasks, nextTask, comments, nextComment, now, users>>

\* Mutant of BoardGetObject: the board is looked up in get_queryset(), the
\* boards the requester is a member of.
BoardGetObject_FilteredLookup(i, r) ==
  /\ Idle
  /\ Accepts(i)
  /\ IF r.id \notin DOMAIN boards \/ r.user \notin boards[r.id].members
       THEN Refuse(Answer(r, NotFound))
       ELSE Begin(i, r, "check", BoardRow(r.id))
  /\ UNCHANGED <<boards, nextBoard, tasks, nextTask, comments, nextComment, now, users>>

\* BoardViewSet.get_object, Board.objects.get(id=board_id): the row is looked
\* up among all boards, not in get_queryset(); a missing row is NotFound.
BoardGetObject(i, r) ==
  /\ Idle
  /\ Accepts(i)
  /\ IF r.id \notin DOMAIN boards
       THEN Refuse(Answer(r, NotFound))
       ELSE Begin(i, r, "check", BoardRow(r.id))
  /\ UNCHANGED <<boards, nextBoard, tasks, nextTask, comments, nextComment, now, users>>

\* The handlers of BoardViewSet that call get_object.
BoardObjectOps ==
  {"board_retrieve", "board_update", "board_partial_update", "board_destroy"}

\* BoardViewSet.get_object, check_object_permissions(request, obj): the owner
\* of the row read, the members as they are now.  board_retrieve has nothing
\* more to read that changes its answer.
BoardCheckObjectPermissions(i) ==
  /\ Idle
  /\ pending[i].op \in BoardObjectOps
  /\ pending[i].pc = "check"
  /\ LET r == pending[i]
     IN IF ~BoardPermission(r.user, Seen(r.obj, r.id), r.op = "board_retrieve")
          THEN Finish(i, Answer(r, NotAuthorized))
        ELSE IF r.op = "board_retrieve"
          THEN Finish(i, Answer(r, OK))
        ELSE Goto(i, "permitted")
  /\ UNCHANGED <<boards, nextBoard, tasks, nextTask, comments, nextComment, now, users>>

\* BoardViewSet.retrieve
BoardRetrieve(i, u, id) ==
  BoardGetObject(i, Request("board_retrieve", u, id, 0, << >>))

\* BoardViewSet.partial_update, instance = self.get_object()
BoardPartialUpdate(i, u, id, title, members) ==
  BoardGetObject(i, Request("board_partial_update", u, id, 0,
                            [title |-> title, members |-> members]))

\* BoardUpdateSerializer.save -> ModelSerializer.update, instance.save(): the
\* fields sent are set on the instance get_object read and the whole row is
\* written.
BoardUpdateSave(obj, title) ==
  [title |-> OrElse(title, obj.title), owner |-> obj.owner]

\* BoardViewSet.partial_update, serializer.is_valid and instance.save(),
\* Model.save()'s first statement: the UPDATE of the row.  When it finds no
\* row (the board was deleted since get_object) save() goes on to an INSERT.
BoardPartialUpdateSave(i) ==
  /\ Idle
  /\ pending[i].op = "board_partial_update"
  /\ pending[i].pc = "permitted"
  /\ LET r == pending[i]
         members == r.data.members
         row == BoardUpdateSave(r.obj, r.data.title)
     IN IF members # Omitted /\ ~(members[1] \subseteq DOMAIN users)
          THEN /\ Finish(i, Answer(r, ValidationFailed))
               /\ boards' = boards
        ELSE IF r.id \notin DOMAIN boards
          THEN /\ Goto(i, "insert")
               /\ boards' = boards
        ELSE /\ boards' = [boards EXCEPT ![r.id].title = row.title,
                                         ![r.id].owner = row.owner]
             /\ IF members = Omitted
                  THEN Finish(i, Answer(r, OK))
                  ELSE Goto(i, "set_members")
  /\ UNCHANGED <<nextBoard, tasks, nextTask, comments, nextComment, now, users>>

\* Model.save()'s second statement, after an UPDATE of no row: the INSERT of
\* the row under the id it had, without members.  When a row with that id is
\* there again the INSERT raises IntegrityError, which no handler catches.
BoardPartialUpdateInsert(i) ==
  /\ Idle
  /\ pending[i].op \in {"board_update", "board_partial_update"}
  /\ pending[i].pc = "insert"
  /\ LET r == pending[i]
         row == BoardUpdateSave(r.obj, r.data.title)
     IN IF r.id \in DOMAIN boards
          THEN /\ Finish(i, Answer(r, ServerError))
               /\ boards' = boards
          ELSE /\ boards' = boards @@
                      (r.id :> [owner |-> row.owner, title |-> row.title, members |-> {}])
               /\ IF r.data.members = Omitted
                    THEN Finish(i, Answer(r, OK))
                    ELSE Goto(i, "set_members")
  /\ UNCHANGED <<nextBoard, tasks, nextTask, comments, nextComment, now, users>>

\* instance.members.set(members): a second transaction, after the row is
\* saved, that makes the member set the list sent.  For a PATCH it is
\* ModelSerializer.update's field.set(value) and the last statement:
\* BoardUpdateSerializer does not add the owner.  For a PUT it is
\* BoardSerializer.update's, which goes on to add the owner.
BoardPartialUpdateSetMembers(i) ==
  /\ Idle
  /\ pending[i].op \in {"board_update", "board_partial_update"}
  /\ pending[i].pc = "set_members"
  /\ LET r == pending[i]
         members == r.data.members[1]
     IN IF JoinWriteFails(r.id, members)
          THEN /\ Finish(i, Answer(r, ServerError))
               /\ boards' = boards
          ELSE /\ boards' = IF r.id \in DOMAIN boards
                              THEN [boards EXCEPT ![r.id] = M2MSet(@, members)]
                              ELSE boards
               /\ IF r.op = "board_update"
                    THEN Goto(i, "add_owner")
                    ELSE Finish(i, Answer(r, OK))
  /\ UNCHANGED <<nextBoard, tasks, nextTask, comments, nextComment, now, users>>

\* BoardViewSet.update (ModelViewSet.update, the handler of PUT),
\* instance = self.get_object().  Its serializer is BoardSerializer.
BoardUpdate(i, u, id, title, members) ==
  BoardGetObject(i, Request("board_update", u, id, 0,
                            [title |-> title, members |-> members]))

\* ModelViewSet.update, serializer.is_valid (title and members are required,
\* every member id names a user) and perform_update -> BoardSerializer.update
\* -> ModelSerializer.update, instance.save(): the UPDATE of the row.  When
\* it finds no row save() goes on to an INSERT.
BoardUpdatePerform(i) ==
  /\ Idle
  /\ pending[i].op = "board_update"
  /\ pending[i].pc = "permitted"
  /\ LET r == pending[i]
         members == r.data.members
         row == BoardUpdateSave(r.obj, r.data.title)
     IN IF r.data.title = Omitted \/ members = Omitted
             \/ ~(members[1] \subseteq DOMAIN users)
          THEN /\ Finish(i, Answer(r, ValidationFailed))
               /\ boards' = boards
        ELSE IF r.id \notin DOMAIN boards
          THEN /\ Goto(i, "insert")
               /\ boards' = boards
        ELSE /\ boards' = [boards EXCEPT ![r.id].title = row.title,
                                         ![r.id].owner = row.owner]
             /\ Goto(i, "set_members")
  /\ UNCHANGED <<nextBoard, tasks, nextTask, comments, nextComment, now, users>>

\* BoardSerializer.update, instance.members.add(instance.owner), and the
\* response.
BoardUpdateAddOwner(i) ==
  /\ Idle
  /\ pending[i].op = "board_update"
  /\ pending[i].pc = "add_owner"
  /\ LET r == pending[i]
     IN IF JoinWriteFails(r.id, {r.obj.owner})
          THEN /\ Finish(i, Answer(r, ServerError))
               /\ boards' = boards
          ELSE /\ boards' = [boards EXCEPT ![r.id] = M2MAdd(@, r.obj.owner)]
               /\ Finish(i, Answer(r, OK))
  /\ UNCHANGED <<nextBoard, tasks, nextTask, comments, nextComment, now, users>>

\* A request for BoardViewSet.add_member arrives: APIView.dispatch runs
\* initial(), which authenticates the requester, before it calls the handler.
BoardAddMember(i, u, id, member_id) ==
  /\ Idle
  /\ Accepts(i)
  /\ Begin(i, Request("add_member", u, id, member_id, << >>), "dispatch", << >>)
  /\ UNCHANGED <<boards, nextBoard, tasks, nextTask, comments, nextComment, now, users>>

\* A request for BoardViewSet.remove_member arrives.
BoardRemoveMember(i, u, id, member_id) ==
  /\ Idle
  /\ Accepts(i)
  /\ Begin(i, Request("remove_member", u, id, member_id, << >>), "dispatch", << >>)
  /\ UNCHANGED <<boards, nextBoard, tasks, nextTask, comments, nextComment, now, users>>

\* The two member handlers of BoardViewSet.
MemberOps == {"add_member", "remove_member"}

\* Mutant of BoardMemberCall: the body of the handler runs in one step, as if
\* get_object had returned the board: the requester is owner or member, the
\* user named exists, and the member is added, or removed unless the owner.
BoardMemberCall_Writes(i) ==
  /\ Idle
  /\ pending[i].op \in MemberOps
  /\ pending[i].pc = "dispatch"
  /\ LET r == pending[i]
     IN boards' =
          IF r.id \in DOMAIN boards /\ r.arg \in DOMAIN users
               /\ IsBoardOwnerOrMember(r.user, boards[r.id])
            THEN [boards EXCEPT ![r.id] =
                    IF r.op = "add_member" THEN M2MAdd(@, r.arg)
                    ELSE IF r.arg = @.owner THEN @
                    ELSE M2MRemove(@, r.arg)]
            ELSE boards
  /\ last' = Answer(pending[i], ServerError)
  /\ pending' = [pending EXCEPT ![i].pc = "answered"]
  /\ UNCHANGED <<nextBoard, tasks, nextTask, comments, nextComment, now, users>>

\* BoardViewSet.add_member(self, request, pk=None) and remove_member, called.
\* get_object reads self.kwargs['board_id']: called with the keyword the route
\* binds (pk) the lookup raises KeyError, called with board_id the call itself
\* raises TypeError.  Either way the request is answered 500 before any
\* statement of the handler runs.  The worker keeps the call it answered
\* until it takes its next request.
BoardMemberCall(i) ==
  /\ Idle
  /\ pending[i].op \in MemberOps
  /\ pending[i].pc = "dispatch"
  /\ last' = Answer(pending[i], ServerError)
  /\ pending' = [pending EXCEPT ![i].pc = "answered"]
  /\ UNCHANGED <<boards, nextBoard, tasks, nextTask, comments, nextComment, now, users>>

\* BoardViewSet.destroy, instance = self.get_object()
BoardDestroy(i, u, id) ==
  BoardGetObject(i, Request("board_destroy", u, id, 0, << >>))

\* Board.delete(), Collector.collect: one SELECT of the tasks of the board,
\* before the transaction of the delete begins.
BoardDestroyCollect(i) ==
  /\ Idle
  /\ pending[i].op = "board_destroy"
  /\ pending[i].pc = "permitted"
  /\ pending' = [pending EXCEPT ![i].pc = "collected", ![i].rows = TasksOfBoard(pending[i].id)]
  /\ UNCHANGED <<boards, nextBoard, tasks, nextTask, comments, nextComment, now, last, users>>

\* Mutant of BoardCascade: the tasks go, their comments stay.
BoardCascade_TasksOnly(id, collected) ==
  [tasks |-> collected \cap DOMAIN tasks, comments |-> {}]

\* Collector.delete for a board: the rows that go with it are the tasks that
\* were collected and the comments those tasks have now.
BoardCascade(id, collected) ==
  [tasks |-> collected \cap DOMAIN tasks, comments |-> CommentsOfTasks(collected)]

\* Board.delete(), Collector.delete: one transaction that deletes the comments
\* of the collected tasks, the collected tasks, the join rows and the board.
\* A task of the board that was not collected still refers to the board at
\* COMMIT: IntegrityError, the transaction is rolled back.
BoardDestroyDelete(i) ==
  /\ Idle
  /\ pending[i].op = "board_destroy"
  /\ pending[i].pc = "collected"
  /\ LET r == pending[i]
         gone == BoardCascade(r.id, r.rows)
     IN IF TasksOfBoard(r.id) \ gone.tasks # {}
               \/ CommentsOfTasks(gone.tasks) \ gone.comments # {}
          THEN /\ Finish(i, Answer(r, ServerError))
               /\ UNCHANGED <<boards, tasks, comments>>
          ELSE /\ boards' = Restrict(boards, DOMAIN boards \ {r.id})
               /\ tasks' = Restrict(tasks, DOMAIN tasks \ gone.tasks)
               /\ comments' = Restrict(comments, DOMAIN comments \ gone.comments)
               /\ Finish(i, Answer(r, OK))
  /\ UNCHANGED <<nextBoard, nextTask, nextComment, now, users>>

\* BoardViewSet.get_queryset: the boards that have the requester as a member.
BoardGetQueryset(u) == {b \in DOMAIN boards : u \in boards[b].members}

\* BoardListSerializer.get_member_count: obj.members.count() of a many-to-many
\* manager is a COUNT on the join table at the time of the call, prefetched or
\* not.
get_member_count(b) == Cardinality(MembersOf(b))
\* BoardListSerializer.get_ticket_count: obj.tasks was prefetched, .count()
\* counts the rows the prefetch read.
get_ticket_count(b) == Cardinality(TasksOfBoard(b))

\* Mutant of get_tasks_to_do_count: every task that is not done is counted.
get_tasks_to_do_count_NotDone(b) ==
  Cardinality({t \in TasksOfBoard(b) : tasks[t].status # "done"})

\* BoardListSerializer.get_tasks_to_do_count and get_tasks_high_prio_count:
\* obj.tasks.filter(...) is a new query at the time of the call.
get_tasks_to_do_count(b) ==
  Cardinality({t \in TasksOfBoard(b) : tasks[t].status = "to-do"})
get_tasks_high_prio_count(b) ==
  Cardinality({t \in TasksOfBoard(b) : tasks[t].priority = "high"})

\* BoardListSerializer: the representation of one board in a list, its fields
\* in the order of Meta.fields; the counts are filled in by the later queries.
BoardListSerializer(b) ==
  [id |-> b,
   title |-> boards[b].title,
   member_count |-> 0,
   ticket_count |-> 0,
   tasks_to_do_count |-> 0,
   tasks_high_prio_count |-> 0,
   owner_id |-> boards[b].owner]

\* BoardViewSet.list, the SELECT of get_queryset(); no row, no further query.
BoardList(i, u) ==
  /\ Idle
  /\ Accepts(i)
  /\ \E f \in Orderings(BoardGetQueryset(u)) :
       IF f = << >>
         THEN Refuse(Resp("board_list", u, 0, 0, OK))
         ELSE /\ pending' = [pending EXCEPT ![i] =
                   [Request("board_list", u, 0, 0, << >>) EXCEPT
                      !.pc = "prefetch_members",
                      !.body = [k \in DOMAIN f |-> BoardListSerializer(f[k])]]]
              /\ last' = last
  /\ UNCHANGED <<boards, nextBoard, tasks, nextTask, comments, nextComment, now, users>>

\* prefetch_related('members'): one SELECT of the members of the boards read.
\* No field of the list is filled from its rows.
BoardListPrefetchMembers(i) ==
  /\ Idle
  /\ pending[i].op = "board_list"
  /\ pending[i].pc = "prefetch_members"
  /\ pending' = [pending EXCEPT ![i].pc = "prefetch_tasks"]
  /\ UNCHANGED <<boards, nextBoard, tasks, nextTask, comments, nextComment, now, last, users>>

\* prefetch_related('tasks'): one SELECT of the tasks of the boards read;
\* ticket_count of every row is the number of them the board has.
BoardListPrefetchTasks(i) ==
  /\ Idle
  /\ pending[i].op = "board_list"
  /\ pending[i].pc = "prefetch_tasks"
  /\ LET body == pending[i].body
     IN pending' = [pending EXCEPT
          ![i].pc = "member_count",
          ![i].k = 1,
          ![i].body = [k \in DOMAIN body |->
                         [body[k] EXCEPT !.ticket_count = get_ticket_count(body[k].id)]]]
  /\ UNCHANGED <<boards, nextBoard, tasks, nextTask, comments, nextComment, now, last, users>>

\* Serialization of row k: get_member_count
BoardListMemberCount(i) ==
  /\ Idle
  /\ pending[i].op = "board_list"
  /\ pending[i].pc = "member_count"
  /\ LET k == pending[i].k
     IN pending' = [pending EXCEPT
          ![i].pc = "to_do_count",
          ![i].body[k].member_count = get_member_count(pending[i].body[k].id)]
  /\ UNCHANGED <<boards, nextBoard, tasks, nextTask, comments, nextComment, now, last, users>>

\* Serialization of row k: get_tasks_to_do_count
BoardListToDoCount(i) ==
  /\ Idle
  /\ pending[i].op = "board_list"
  /\ pending[i].pc = "to_do_count"
  /\ LET k == pending[i].k
     IN pending' = [pending EXCEPT
          ![i].pc = "high_prio_count",
          ![i].body[k].tasks_to_do_count = get_tasks_to_do_count(pending[i].body[k].id)]
  /\ UNCHANGED <<boards, nextBoard, tasks, nextTask, comments, nextComment, now, last, users>>

\* Serialization of row k: get_tasks_high_prio_count; after the last row the
\* list is returned.
BoardListHighPrioCount(i) ==
  /\ Idle
  /\ pending[i].op = "board_list"
  /\ pending[i].pc = "high_prio_count"
  /\ LET r == pending[i]
         k == r.k
         body == [r.body EXCEPT ![k].tasks_high_prio_count =
                                   get_tasks_high_prio_count(r.body[k].id)]
     IN IF k = Len(body)
          THEN Finish(i, [Answer(r, OK) EXCEPT !.body = body])
          ELSE /\ pending' = [pending EXCEPT ![i].pc = "member_count", ![i].k = k + 1,
                                             ![i].body = body]
               /\ last' = last
  /\ UNCHANGED <<boards, nextBoard, tasks, nextTask, comments, nextComment, now, users>>

----------------------------------------------------------------------------
\* The number of requests of handler op that are being served.
InFlight(op) == Cardinality({j \in Slots : pending[j].op = op})

\* The response to a task request, with the fields the request carried.
TaskAnswer(r, kind) == [Answer(r, kind) EXCEPT !.sent = Sent(r.data)]

\* TaskViewSet.create -> perform_create -> TaskSerializer.create, up to
\* Board.objects.get(id=board_id): the serializer validates the fields (board
\* is required, status and priority are choices, assignee_id is any integer),
\* then the board row is read.
TaskCreate(i, u, board, status, priority, assignee) ==
  LET r == Request("task_create", u, 0, OrElse(board, 0),
                   [board |-> board, status |-> status, priority |-> priority,
                    assignee_id |-> assignee])
      kind == IF board = Omitted \/ ~TaskFieldsValid(status, priority)
                THEN ValidationFailed
              ELSE IF board[1] \notin DOMAIN boards THEN NotFound
              ELSE OK
  IN /\ Idle
     /\ Accepts(i)
     /\ kind = OK => nextTask + InFlight("task_create") <= MaxTasks
     /\ IF kind = OK
          THEN Begin(i, r, "membership", BoardRow(board[1]))
          ELSE Refuse(TaskAnswer(r, kind))
     /\ UNCHANGED <<boards, nextBoard, tasks, nextTask, comments, nextComment, now, users>>

\* TaskSerializer.create, the membership test: the owner of the board read,
\* board.members.all() as it is now.
TaskCreateMembership(i) ==
  /\ Idle
  /\ pending[i].op = "task_create"
  /\ pending[i].pc = "membership"
  /\ LET r == pending[i]
     IN IF OwnerOrInMembers(r.user, Seen(r.obj, r.arg))
          THEN Goto(i, "insert")
          ELSE Finish(i, TaskAnswer(r, NotAuthorized))
  /\ UNCHANGED <<boards, nextBoard, tasks, nextTask, comments, nextComment, now, users>>

\* The foreign keys of a Task row, enforced by the database: the board exists,
\* the assignee is a user or null.  A write that breaks one raises
\* IntegrityError, which no handler catches.
TaskRowAccepted(row) ==
  /\ row.board \in DOMAIN boards
  /\ row.assignee \in DOMAIN users \cup {0}

\* TaskSerializer.create, Task.objects.create(board=board, assignee_id=...):
\* the INSERT, with the model defaults for the fields not sent.
TaskCreateInsert(i) ==
  /\ Idle
  /\ pending[i].op = "task_create"
  /\ pending[i].pc = "insert"
  /\ LET r == pending[i]
         task == [board |-> r.arg,
                  status |-> OrElse(r.data.status, "to-do"),
                  priority |-> OrElse(r.data.priority, "medium"),
                  assignee |-> OrElse(r.data.assignee_id, 0)]
     IN IF TaskRowAccepted(task)
          THEN /\ tasks' = tasks @@ (nextTask :> task)
               /\ nextTask' = nextTask + 1
               /\ Finish(i, [TaskAnswer(r, OK) EXCEPT !.id = nextTask])
          ELSE /\ UNCHANGED <<tasks, nextTask>>
               /\ Finish(i, TaskAnswer(r, ServerError))
  /\ UNCHANGED <<boards, nextBoard, comments, nextComment, now, users>>

\* TaskViewSet.get_queryset: every task; no filter on the requester or on the
\* board_id of the URL.
TaskGetQueryset(u) == DOMAIN tasks

\* TaskViewSet.list: only has_permission (authenticated) is checked; one SELECT.
TaskList(u) ==
  /\ Idle
  /\ \E body \in Orderings(TaskGetQueryset(u)) :
       last' = [Resp("task_list", u, 0, 0, OK) EXCEPT !.body = body]
  /\ UNCHANGED <<boards, nextBoard, tasks, nextTask, comments, nextComment, now, pending, users>>

\* TaskViewSet.get_object, Task.objects.select_related('board').get(id=task_id):
\* one SELECT of the task row joined with its board row.
TaskGetObject(i, r) ==
  /\ Idle
  /\ Accepts(i)
  /\ IF r.id \notin DOMAIN tasks
       THEN Refuse(TaskAnswer(r, NotFound))
       ELSE Begin(i, r, "check", [row |-> tasks[r.id],
                                  owner |-> boards[tasks[r.id].board].owner])
  /\ UNCHANGED <<boards, nextBoard, tasks, nextTask, comments, nextComment, now, users>>

\* The handlers of TaskViewSet that call get_object.
TaskObjectOps == {"task_retrieve", "task_partial_update", "task_destroy",
                  "task_comments_get", "task_comments_post"}

\* TaskViewSet.get_object, check_object_permissions(request, obj): the owner
\* of the board read with the task, the members of that board as they are now.
TaskCheckObjectPermissions(i) ==
  /\ Idle
  /\ pending[i].op \in TaskObjectOps
  /\ pending[i].pc = "check"
  /\ LET r == pending[i]
     IN IF ~IsTaskBoardMember(r.user, Seen(r.obj, r.obj.row.board))
          THEN Finish(i, TaskAnswer(r, NotAuthorized))
        ELSE IF r.op = "task_retrieve"
          THEN Finish(i, TaskAnswer(r, OK))
        ELSE Goto(i, "permitted")
  /\ UNCHANGED <<boards, nextBoard, tasks, nextTask, comments, nextComment, now, users>>

\* TaskViewSet.retrieve
TaskRetrieve(i, u, task_id) ==
  TaskGetObject(i, Request("task_retrieve", u, task_id, 0, << >>))

\* TaskViewSet.partial_update -> update, instance = self.get_object()
TaskPartialUpdate(i, u, task_id, board, status, priority, assignee) ==
  TaskGetObject(i, Request("task_partial_update", u, task_id, OrElse(board, 0),
                           [board |-> board, status |-> status, priority |-> priority,
                            assignee_id |-> assignee]))

\* ModelSerializer.update for a task: the fields sent are set on the instance
\* get_object read; `board` is not among them when the row is saved.
TaskUpdateSave(row, data) ==
  [board |-> row.board,
   status |-> OrElse(data.status, row.status),
   priority |-> OrElse(data.priority, row.priority),
   assignee |-> OrElse(data.assignee_id, row.assignee)]

\* Mutant of TaskPartialUpdateSave: the board value sent is written to board_id.
TaskPartialUpdateSave_WritesBoard(i) ==
  /\ Idle
  /\ pending[i].op = "task_partial_update"
  /\ pending[i].pc = "permitted"
  /\ LET r == pending[i]
         row == [TaskUpdateSave(r.obj.row, r.data) EXCEPT
                   !.board = OrElse(r.data.board, @)]
     IN IF ~TaskFieldsValid(r.data.status, r.data.priority)
          THEN /\ Finish(i, TaskAnswer(r, ValidationFailed))
               /\ tasks' = tasks
        ELSE IF r.id \notin DOMAIN tasks
          THEN /\ pending' = [pending EXCEPT ![i].pc = "insert", ![i].obj.row = row]
               /\ last' = last
               /\ tasks' = tasks
        ELSE IF ~TaskRowAccepted(row)
          THEN /\ Finish(i, TaskAnswer(r, ServerError))
               /\ tasks' = tasks
        ELSE /\ tasks' = [tasks EXCEPT ![r.id] = row]
             /\ Finish(i, TaskAnswer(r, OK))
  /\ UNCHANGED <<boards, nextBoard, nextTask, comments, nextComment, now, users>>

\* TaskViewSet.update, serializer.is_valid and serializer.save().  A `board`
\* value in the request is an integer, and assigning it to Task.board raises
\* ValueError before the row is saved.  instance.save() writes the whole row,
\* first with an UPDATE; when that finds no row (the task was deleted since
\* get_object) save() goes on to an INSERT.
TaskPartialUpdateSave(i) ==
  /\ Idle
  /\ pending[i].op = "task_partial_update"
  /\ pending[i].pc = "permitted"
  /\ LET r == pending[i]
         row == TaskUpdateSave(r.obj.row, r.data)
     IN IF ~TaskFieldsValid(r.data.status, r.data.priority)
          THEN /\ Finish(i, TaskAnswer(r, ValidationFailed))
               /\ tasks' = tasks
        ELSE IF r.data.board # Omitted
          THEN /\ Finish(i, TaskAnswer(r, ServerError))
               /\ tasks' = tasks
        ELSE IF r.id \notin DOMAIN tasks
          THEN /\ pending' = [pending EXCEPT ![i].pc = "insert", ![i].obj.row = row]
               /\ last' = last
               /\ tasks' = tasks
        ELSE IF ~TaskRowAccepted(row)
          THEN /\ Finish(i, TaskAnswer(r, ServerError))
               /\ tasks' = tasks
        ELSE /\ tasks' = [tasks EXCEPT ![r.id] = row]
             /\ Finish(i, TaskAnswer(r, OK))
  /\ UNCHANGED <<boards, nextBoard, nextTask, comments, nextComment, now, users>>

\* Model.save()'s second statement, after an UPDATE of no row: the INSERT of
\* the row under the id it had.  It raises IntegrityError, which no handler
\* catches, when a row with that id is there again or a foreign key of the
\* row refers to nothing.
TaskPartialUpdateInsert(i) ==
  /\ Idle
  /\ pending[i].op = "task_partial_update"
  /\ pending[i].pc = "insert"
  /\ LET r == pending[i]
         row == r.obj.row
     IN IF r.id \in DOMAIN tasks \/ ~TaskRowAccepted(row)
          THEN /\ Finish(i, TaskAnswer(r, ServerError))
               /\ tasks' = tasks
          ELSE /\ tasks' = tasks @@ (r.id :> row)
               /\ Finish(i, TaskAnswer(r, OK))
  /\ UNCHANGED <<boards, nextBoard, nextTask, comments, nextComment, now, users>>

\* TaskViewSet.destroy, instance = self.get_object()
TaskDestroy(i, u, task_id) ==
  TaskGetObject(i, Request("task_destroy", u, task_id, 0, << >>))

\* Task.delete(): one transaction that deletes the comments the task has now
\* and the task row (no row is read beforehand).
TaskDestroyDelete(i) ==
  /\ Idle
  /\ pending[i].op = "task_destroy"
  /\ pending[i].pc = "permitted"
  /\ LET r == pending[i]
     IN /\ tasks' = Restrict(tasks, DOMAIN tasks \ {r.id})
        /\ comments' = Restrict(comments, DOMAIN comments \ CommentsOfTasks({r.id}))
        /\ Finish(i, TaskAnswer(r, OK))
  /\ UNCHANGED <<boards, nextBoard, nextTask, nextComment, now, users>>

----------------------------------------------------------------------------
\* TaskViewSet.comments, GET: task = self.get_object()
TaskCommentsGet(i, u, task_id) ==
  TaskGetObject(i, Request("task_comments_get", u, task_id, 0, << >>))

\* TaskViewSet.comments, GET: task.comments.all() in the model's ordering.
TaskCommentsGetList(i) ==
  /\ Idle
  /\ pending[i].op = "task_comments_get"
  /\ pending[i].pc = "permitted"
  /\ \E body \in CommentOrdering(CommentsOfTasks({pending[i].id})) :
       Finish(i, [Answer(pending[i], OK) EXCEPT !.body = body])
  /\ UNCHANGED <<boards, nextBoard, tasks, nextTask, comments, nextComment, now, users>>

\* Mutant of CommentSave: an author sent by the client is written to the row.
CommentSave_TrustsClient(task_id, content, sent_author, author) ==
  [task |-> task_id,
   author |-> IF sent_author # 0 THEN sent_author ELSE author,
   content |-> content,
   created_at |-> now]

\* CommentSerializer.save(task=..., author=...): `author` is a read-only field,
\* so the value the client sent never reaches the row; created_at is
\* auto_now_add, the clock's reading when the instance is prepared for its
\* INSERT (DateTimeField.pre_save).
CommentSave(task_id, content, sent_author, author) ==
  [task |-> task_id, author |-> author, content |-> content, created_at |-> now]

\* TaskViewSet.comments, POST: task = self.get_object(); `arg` holds the
\* author the client sent (0 when none).
TaskCommentsPost(i, u, task_id, content, sent_author) ==
  /\ nextComment + InFlight("task_comments_post") <= MaxComments
  /\ TaskGetObject(i, Request("task_comments_post", u, task_id, sent_author,
                              [content |-> content]))

\* TaskViewSet.comments, POST: serializer.is_valid() and
\* serializer.save(task=task, author=request.user) up to the INSERT: the
\* instance is built and created_at is read from the clock.
TaskCommentsPostSave(i) ==
  /\ Idle
  /\ pending[i].op = "task_comments_post"
  /\ pending[i].pc = "permitted"
  /\ LET r == pending[i]
     IN IF r.data.content = Omitted
          THEN Finish(i, Answer(r, ValidationFailed))
          ELSE /\ pending' = [pending EXCEPT
                    ![i].pc = "insert",
                    ![i].obj = [row |-> CommentSave(r.id, r.data.content[1], r.arg, r.user)]]
               /\ last' = last
  /\ UNCHANGED <<boards, nextBoard, tasks, nextTask, comments, nextComment, now, users>>

\* Model.save(), the INSERT of a Comment row, by the create and by the save()
\* of an update whose row is gone: under the next id for a new comment, under
\* the id it had for an instance read before.  Comment.task
\* is a foreign key the database enforces: the INSERT of a comment whose task
\* has been deleted raises IntegrityError, as does the INSERT under an id
\* that is taken; no handler catches it.
CommentInsert(i) ==
  /\ Idle
  /\ pending[i].op \in {"task_comments_post", "comment_partial_update"}
  /\ pending[i].pc = "insert"
  /\ LET r == pending[i]
         row == r.obj.row
         id == IF r.op = "task_comments_post" THEN nextComment ELSE r.id
     IN IF row.task \notin DOMAIN tasks \/ id \in DOMAIN comments
          THEN /\ Finish(i, Answer(r, ServerError))
               /\ UNCHANGED <<comments, nextComment>>
          ELSE /\ comments' = comments @@ (id :> row)
               /\ nextComment' = IF id = nextComment THEN nextComment + 1 ELSE nextComment
               /\ Finish(i, Answer(r, OK))
  /\ UNCHANGED <<boards, nextBoard, tasks, nextTask, now, users>>

\* CommentViewSet.get_queryset: the comments of the task in the URL whose
\* board the requester owns or is a member of.
CommentGetQueryset(u, task_id) ==
  LET accessible_boards ==
        {b \in DOMAIN boards : boards[b].owner = u \/ u \in boards[b].members}
  IN {c \in DOMAIN comments :
        tasks[comments[c].task].board \in accessible_boards /\ comments[c].task = task_id}

\* CommentViewSet.list, Task.objects.select_related('board').get(id=task_id)
CommentList(i, u, task_id) ==
  /\ Idle
  /\ Accepts(i)
  /\ LET r == Request("comment_list", u, task_id, 0, << >>)
     IN IF task_id \notin DOMAIN tasks
          THEN Refuse(Answer(r, NotFound))
          ELSE Begin(i, r, "membership", [row |-> tasks[task_id],
                                          owner |-> boards[tasks[task_id].board].owner])
  /\ UNCHANGED <<boards, nextBoard, tasks, nextTask, comments, nextComment, now, users>>

\* CommentViewSet.list, the membership test: the owner of the board read with
\* the task, board.members.all() as it is now.
CommentListMembership(i) ==
  /\ Idle
  /\ pending[i].op = "comment_list"
  /\ pending[i].pc = "membership"
  /\ LET r == pending[i]
     IN IF OwnerOrInMembers(r.user, Seen(r.obj, r.obj.row.board))
          THEN Goto(i, "permitted")
          ELSE Finish(i, Answer(r, NotAuthorized))
  /\ UNCHANGED <<boards, nextBoard, tasks, nextTask, comments, nextComment, now, users>>

\* CommentViewSet.list, the SELECT of get_queryset() in the model's ordering.
CommentListQuery(i) ==
  /\ Idle
  /\ pending[i].op = "comment_list"
  /\ pending[i].pc = "permitted"
  /\ \E body \in CommentOrdering(CommentGetQueryset(pending[i].user, pending[i].id)) :
       Finish(i, [Answer(pending[i], OK) EXCEPT !.body = body])
  /\ UNCHANGED <<boards, nextBoard, tasks, nextTask, comments, nextComment, now, users>>

\* CommentViewSet.perform_create.  The name `request` in its membership test is
\* the module imported at views.py:7 (`from urllib import request`), which has
\* no attribute `user`: evaluating the test raises AttributeError.
CommentPerformCreate(u, task_id) ==
  IF task_id \notin DOMAIN tasks THEN NotFound ELSE ServerError

\* CommentViewSet.create: the serializer validates, then perform_create runs;
\* its one statement is the SELECT of the task.
CommentCreate(u, task_id, content, sent_author) ==
  LET kind == IF content = Omitted THEN ValidationFailed
              ELSE CommentPerformCreate(u, task_id)
  IN /\ Idle
     /\ last' = Resp("comment_create", u, task_id, sent_author, kind)
     /\ UNCHANGED <<boards, nextBoard, tasks, nextTask, comments, nextComment, now, pending, users>>

\* CommentViewSet.get_object,
\* Comment.objects.select_related('task__board').get(id=pk, task_id=task_id):
\* one SELECT of the comment joined with its task and board.  `id` holds the
\* comment id, `arg` the task id of the URL.
CommentGetObject(i, r) ==
  /\ Idle
  /\ Accepts(i)
  /\ IF r.id \notin DOMAIN comments \/ comments[r.id].task # r.arg
       THEN Refuse(Answer(r, NotFound))
       ELSE Begin(i, r, "check",
                  [row |-> comments[r.id],
                   board |-> tasks[r.arg].board,
                   owner |-> boards[tasks[r.arg].board].owner])
  /\ UNCHANGED <<boards, nextBoard, tasks, nextTask, comments, nextComment, now, users>>

\* The handlers of CommentViewSet that call get_object.
CommentObjectOps == {"comment_retrieve", "comment_partial_update", "comment_destroy"}

\* CommentViewSet.get_object, check_object_permissions(request, obj):
\* IsTaskBoardMember on the board of the comment's task.
CommentCheckObjectPermissions(i) ==
  /\ Idle
  /\ pending[i].op \in CommentObjectOps
  /\ pending[i].pc = "check"
  /\ LET r == pending[i]
     IN IF ~IsTaskBoardMember(r.user, Seen(r.obj, r.obj.board))
          THEN Finish(i, Answer(r, NotAuthorized))
        ELSE IF r.op = "comment_retrieve"
          THEN Finish(i, Answer(r, OK))
        ELSE Goto(i, "permitted")
  /\ UNCHANGED <<boards, nextBoard, tasks, nextTask, comments, nextComment, now, users>>

\* CommentViewSet.retrieve
CommentRetrieve(i, u, task_id, pk) ==
  CommentGetObject(i, Request("comment_retrieve", u, pk, task_id, << >>))

\* CommentViewSet.partial_update: content is the only writable field.
CommentPartialUpdate(i, u, task_id, pk, content, sent_author) ==
  CommentGetObject(i, Request("comment_partial_update", u, pk, task_id,
                              [content |-> content]))

\* CommentViewSet.partial_update, serializer.save() -> instance.save(),
\* Model.save()'s first statement: the UPDATE of the whole row but created_at's
\* clock (auto_now_add applies to an INSERT only).  When it finds no row (the
\* comment was deleted since get_object) save() goes on to an INSERT.
CommentPartialUpdateSave(i) ==
  /\ Idle
  /\ pending[i].op = "comment_partial_update"
  /\ pending[i].pc = "permitted"
  /\ LET r == pending[i]
         row == [r.obj.row EXCEPT !.content = OrElse(r.data.content, @)]
     IN IF r.id \in DOMAIN comments
          THEN /\ comments' = [comments EXCEPT ![r.id] = row]
               /\ Finish(i, Answer(r, OK))
          ELSE /\ comments' = comments
               /\ pending' = [pending EXCEPT ![i].pc = "pre_save", ![i].obj.row = row]
               /\ last' = last
  /\ UNCHANGED <<boards, nextBoard, tasks, nextTask, nextComment, now, users>>

\* Model.save() after an UPDATE of no row, the instance is prepared for the
\* INSERT: created_at is read from the clock anew (auto_now_add).
CommentPartialUpdatePreSave(i) ==
  /\ Idle
  /\ pending[i].op = "comment_partial_update"
  /\ pending[i].pc = "pre_save"
  /\ pending' = [pending EXCEPT ![i].pc = "insert", ![i].obj.row.created_at = now]
  /\ UNCHANGED <<boards, nextBoard, tasks, nextTask, comments, nextComment, now, last, users>>

\* CommentViewSet.destroy, instance = self.get_object()
CommentDestroy(i, u, task_id, pk) ==
  CommentGetObject(i, Request("comment_destroy", u, pk, task_id, << >>))

\* Comment.delete(): one DELETE of the row.
CommentDestroyDelete(i) ==
  /\ Idle
  /\ pending[i].op = "comment_destroy"
  /\ pending[i].pc = "permitted"
  /\ comments' = Restrict(comments, DOMAIN comments \ {pending[i].id})
  /\ Finish(i, Answer(pending[i], OK))
  /\ UNCHANGED <<boards, nextBoard, tasks, nextTask, nextComment, now, users>>

----------------------------------------------------------------------------
\* Member lists and member ids a client sends.
MemberLists == SUBSET UserIds
MemberIds == {0, 1, 4}

\* The board endpoints on an empty database, one request at a time.
NextBoard ==
  \/ \E i \in Single, u \in Users, t \in Titles, ms \in MemberLists : BoardCreate(i, u, t, ms)
  \/ \E i \in Single : BoardCreateSetMembers(i)
  \/ \E i \in Single : BoardCreateAddOwner(i)
  \/ \E i \in Single : BoardCreateAddUser(i)
  \/ \E i \in Single, u \in Users : BoardList(i, u)
  \/ \E i \in Single : BoardListPrefetchMembers(i)
  \/ \E i \in Single : BoardListPrefetchTasks(i)
  \/ \E i \in Single : BoardListMemberCount(i)
  \/ \E i \in Single : BoardListToDoCount(i)
  \/ \E i \in Single : BoardListHighPrioCount(i)
  \/ \E i \in Single, u \in Users, id \in BoardIds : BoardRetrieve(i, u, id)
  \/ \E i \in Single, u \in Users, id \in BoardIds, t \in Opt(Titles), ms \in Opt(MemberLists) :
       BoardPartialUpdate(i, u, id, t, ms)
  \/ \E i \in Single, u \in Users, id \in BoardIds, t \in Opt(Titles), ms \in Opt(MemberLists) :
       BoardUpdate(i, u, id, t, ms)
  \/ \E i \in Single : BoardCheckObjectPermissions(i)
  \/ \E i \in Single : BoardPartialUpdateSave(i)
  \/ \E i \in Single : BoardPartialUpdateSetMembers(i)
  \/ \E i \in Single : BoardUpdatePerform(i)
  \/ \E i \in Single : BoardUpdateAddOwner(i)
  \/ \E i \in Single, u \in Users, id \in BoardIds, m \in MemberIds : BoardAddMember(i, u, id, m)
  \/ \E i \in Single, u \in Users, id \in BoardIds, m \in MemberIds :
       BoardRemoveMember(i, u, id, m)
  \/ \E i \in Single : BoardMemberCall(i)
  \/ \E i \in Single, u \in Users, id \in BoardIds : BoardDestroy(i, u, id)
  \/ \E i \in Single : BoardDestroyCollect(i)
  \/ \E i \in Single : BoardDestroyDelete(i)
  \/ Reply

SpecBoard == Init /\ [][NextBoard]_vars

----------------------------------------------------------------------------
\* A database the board endpoints reach: board 1 was created by user 1 with
\* members [2]; board 2 was created by user 3 and then patched with members [2].
ScenarioBoards ==
  (1 :> [owner |-> 1, title |-> "t1", members |-> {1, 2}]) @@
  (2 :> [owner |-> 3, title |-> "t1", members |-> {2}])

InitScenario ==
  /\ boards = ScenarioBoards
  /\ nextBoard = Cardinality(DOMAIN ScenarioBoards) + 1
  /\ tasks = << >>
  /\ nextTask = 1
  /\ comments = << >>
  /\ nextComment = 1
  /\ now = 1
  /\ users = RegisteredUsers
  /\ pending = [i \in Slots |-> NoPending]
  /\ last = NoRequest

\* Board ids a client sends in the scenario.
ScenarioBoardIds == DOMAIN ScenarioBoards

\* Task fields a client sends: none; a status, a priority and an assignee; a
\* status that is no choice of the model field; an assignee that names no user.
FieldInputs ==
  {[status |-> Omitted, priority |-> Omitted, assignee_id |-> Omitted],
   [status |-> Given("in-progress"), priority |-> Given("high"), assignee_id |-> Given(1)],
   [status |-> Given("bogus"), priority |-> Omitted, assignee_id |-> Omitted],
   [status |-> Omitted, priority |-> Omitted, assignee_id |-> Given(4)]}
\* The body of a task update: fields without a board, or a board alone.
UpdateInputs ==
  {[board |-> Omitted, status |-> f.status, priority |-> f.priority,
    assignee_id |-> f.assignee_id] : f \in FieldInputs}
  \cup {[board |-> Given(b), status |-> Omitted, priority |-> Omitted,
          assignee_id |-> Omitted] : b \in ScenarioBoardIds}
\* Comment texts and author values a client sends; 0 is no author field.
ContentInputs == {"c1"}
SentAuthors == {0, 3}

\* The task endpoints (and board deletion) on the scenario's boards, one
\* request at a time.
NextTask ==
  \/ \E i \in Single, u \in Users, b \in Opt(ScenarioBoardIds), f \in FieldInputs :
       TaskCreate(i, u, b, f.status, f.priority, f.assignee_id)
  \/ \E i \in Single : TaskCreateMembership(i)
  \/ \E i \in Single : TaskCreateInsert(i)
  \/ \E u \in Users : TaskList(u)
  \/ \E i \in Single, u \in Users : BoardList(i, u)
  \/ \E i \in Single : BoardListPrefetchMembers(i)
  \/ \E i \in Single : BoardListPrefetchTasks(i)
  \/ \E i \in Single : BoardListMemberCount(i)
  \/ \E i \in Single : BoardListToDoCount(i)
  \/ \E i \in Single : BoardListHighPrioCount(i)
  \/ \E i \in Single, u \in Users, t \in TaskIds : TaskRetrieve(i, u, t)
  \/ \E i \in Single, u \in Users, t \in TaskIds, d \in UpdateInputs :
       TaskPartialUpdate(i, u, t, d.board, d.status, d.priority, d.assignee_id)
  \/ \E i \in Single : TaskCheckObjectPermissions(i)
  \/ \E i \in Single : TaskPartialUpdateSave(i)
  \/ \E i \in Single, u \in Users, t \in TaskIds : TaskDestroy(i, u, t)
  \/ \E i \in Single : TaskDestroyDelete(i)
  \/ \E i \in Single, u \in Users, id \in ScenarioBoardIds : BoardDestroy(i, u, id)
  \/ \E i \in Single : BoardCheckObjectPermissions(i)
  \/ \E i \in Single : BoardDestroyCollect(i)
  \/ \E i \in Single : BoardDestroyDelete(i)
  \/ Reply

SpecTask == InitScenario /\ [][NextTask]_vars

\* The comment endpoints, with task creation, the gets and the two cascading
\* deletes, on the scenario's boards, one request at a time.
NextComment ==
  \/ \E i \in Single, u \in Users, b \in ScenarioBoardIds :
       TaskCreate(i, u, Given(b), Omitted, Omitted, Omitted)
  \/ \E i \in Single : TaskCreateMembership(i)
  \/ \E i \in Single : TaskCreateInsert(i)
  \/ \E i \in Single, u \in Users, t \in TaskIds : TaskRetrieve(i, u, t)
  \/ \E i \in Single, u \in Users, t \in TaskIds : TaskDestroy(i, u, t)
  \/ \E i \in Single : TaskDestroyDelete(i)
  \/ \E i \in Single, u \in Users, id \in ScenarioBoardIds : BoardRetrieve(i, u, id)
  \/ \E i \in Single, u \in Users, id \in ScenarioBoardIds : BoardDestroy(i, u, id)
  \/ \E i \in Single : BoardCheckObjectPermissions(i)
  \/ \E i \in Single : BoardDestroyCollect(i)
  \/ \E i \in Single : BoardDestroyDelete(i)
  \/ \E i \in Single, u \in Users, t \in TaskIds : TaskCommentsGet(i, u, t)
  \/ \E i \in Single : TaskCommentsGetList(i)
  \/ \E i \in Single, u \in Users, t \in TaskIds, c \in Opt(ContentInputs), a \in SentAuthors :
       TaskCommentsPost(i, u, t, c, a)
  \/ \E i \in Single : TaskCheckObjectPermissions(i)
  \/ \E i \in Single : TaskCommentsPostSave(i)
  \/ \E i \in Single : CommentInsert(i)
  \/ \E i \in Single, u \in Users, t \in TaskIds : CommentList(i, u, t)
  \/ \E i \in Single : CommentListMembership(i)
  \/ \E i \in Single : CommentListQuery(i)
  \/ \E u \in Users, t \in TaskIds, c \in Opt(ContentInputs), a \in SentAuthors :
       CommentCreate(u, t, c, a)
  \/ \E i \in Single, u \in Users, t \in TaskIds, pk \in CommentIds :
       CommentRetrieve(i, u, t, pk)
  \/ \E i \in Single, u \in Users, t \in TaskIds, pk \in CommentIds, c \in Opt(ContentInputs),
        a \in SentAuthors :
       CommentPartialUpdate(i, u, t, pk, c, a)
  \/ \E i \in Single, u \in Users, t \in TaskIds, pk \in CommentIds :
       CommentDestroy(i, u, t, pk)
  \/ \E i \in Single : CommentCheckObjectPermissions(i)
  \/ \E i \in Single : CommentPartialUpdateSave(i)
  \/ \E i \in Single : CommentDestroyDelete(i)
  \/ Reply

SpecComment == InitScenario /\ [][NextComment]_vars

\* Writing, editing and deleting comments, with the two cascading deletes, one
\* request at a time.
NextEdit ==
  \/ \E i \in Single, u \in Users, b \in ScenarioBoardIds :
       TaskCreate(i, u, Given(b), Omitted, Omitted, Omitted)
  \/ \E i \in Single : TaskCreateMembership(i)
  \/ \E i \in Single : TaskCreateInsert(i)
  \/ \E i \in Single, u \in Users, t \in TaskIds : TaskDestroy(i, u, t)
  \/ \E i \in Single : TaskDestroyDelete(i)
  \/ \E i \in Single, u \in Users, id \in ScenarioBoardIds : BoardDestroy(i, u, id)
  \/ \E i \in Single : BoardCheckObjectPermissions(i)
  \/ \E i \in Single : BoardDestroyCollect(i)
  \/ \E i \in Single : BoardDestroyDelete(i)
  \/ \E i \in Single, u \in Users, t \in TaskIds, c \in Opt(ContentInputs) :
       TaskCommentsPost(i, u, t, c, 0)
  \/ \E i \in Single : TaskCheckObjectPermissions(i)
  \/ \E i \in Single : TaskCommentsPostSave(i)
  \/ \E i \in Single : CommentInsert(i)
  \/ \E i \in Single, u \in Users, t \in TaskIds, pk \in CommentIds, c \in Opt(Contents) :
       CommentPartialUpdate(i, u, t, pk, c, 0)
  \/ \E i \in Single, u \in Users, t \in TaskIds, pk \in CommentIds :
       CommentDestroy(i, u, t, pk)
  \/ \E i \in Single : CommentCheckObjectPermissions(i)
  \/ \E i \in Single : CommentPartialUpdateSave(i)
  \/ \E i \in Single : CommentDestroyDelete(i)
  \/ Reply

SpecEdit == InitScenario /\ [][NextEdit]_vars

\* Requesters of the requests that are served two at a time.
RaceUsers == {1, 2}

\* Creates served concurrently with each other and with the deletes of their
\* parents, the clock running: two workers, the statements of their handlers
\* interleaved in every way.
NextRace ==
  \/ \E i \in Slots, u \in RaceUsers, b \in ScenarioBoardIds :
       TaskCreate(i, u, Given(b), Omitted, Omitted, Omitted)
  \/ \E i \in Slots : TaskCreateMembership(i)
  \/ \E i \in Slots : TaskCreateInsert(i)
  \/ \E i \in Slots, u \in RaceUsers, t \in TaskIds : TaskCommentsPost(i, u, t, Given("c1"), 0)
  \/ \E i \in Slots : TaskCheckObjectPermissions(i)
  \/ \E i \in Slots : TaskCommentsPostSave(i)
  \/ \E i \in Slots : CommentInsert(i)
  \/ \E i \in Slots, u \in RaceUsers, t \in TaskIds : TaskDestroy(i, u, t)
  \/ \E i \in Slots : TaskDestroyDelete(i)
  \/ \E i \in Slots, u \in RaceUsers, id \in ScenarioBoardIds : BoardDestroy(i, u, id)
  \/ \E i \in Slots : BoardCheckObjectPermissions(i)
  \/ \E i \in Slots : BoardDestroyCollect(i)
  \/ \E i \in Slots : BoardDestroyDelete(i)
  \/ Tick
  \/ Reply

SpecRace == InitScenario /\ [][NextRace]_vars

\* The bodies of the task updates that are served two at a time: a status, a
\* priority, the id of the other board.
RaceUpdates ==
  {[board |-> Omitted, status |-> Given("in-progress"), priority |-> Omitted],
   [board |-> Omitted, status |-> Omitted, priority |-> Given("high")],
   [board |-> Given(2), status |-> Omitted, priority |-> Omitted]}

\* Task updates served concurrently with each other and with the deletes of
\* the task and of its board: two workers, the statements of their handlers
\* interleaved in every way.
NextUpdate ==
  \/ \E i \in Slots, u \in RaceUsers :
       TaskCreate(i, u, Given(1), Omitted, Omitted, Omitted)
  \/ \E i \in Slots : TaskCreateMembership(i)
  \/ \E i \in Slots : TaskCreateInsert(i)
  \/ \E i \in Slots, u \in RaceUsers, t \in TaskIds, d \in RaceUpdates :
       TaskPartialUpdate(i, u, t, d.board, d.status, d.priority, Omitted)
  \/ \E i \in Slots : TaskCheckObjectPermissions(i)
  \/ \E i \in Slots : TaskPartialUpdateSave(i)
  \/ \E i \in Slots : TaskPartialUpdateInsert(i)
  \/ \E i \in Slots, u \in RaceUsers, t \in TaskIds : TaskDestroy(i, u, t)
  \/ \E i \in Slots : TaskDestroyDelete(i)
  \/ \E i \in Slots, u \in RaceUsers : BoardDestroy(i, u, 1)
  \/ \E i \in Slots : BoardCheckObjectPermissions(i)
  \/ \E i \in Slots : BoardDestroyCollect(i)
  \/ \E i \in Slots : BoardDestroyDelete(i)
  \/ Reply

SpecUpdate == InitScenario /\ [][NextUpdate]_vars

\* A database the handlers reach from the scenario's boards: user 2 has
\* created task 1 on board 1 and written comment 1 on it.
ScenarioTasks ==
  1 :> [board |-> 1, status |-> "to-do", priority |-> "medium", assignee |-> 0]
ScenarioComments ==
  1 :> [task |-> 1, author |-> 2, content |-> "c1", created_at |-> 1]

InitRows ==
  /\ boards = ScenarioBoards
  /\ nextBoard = Cardinality(DOMAIN ScenarioBoards) + 1
  /\ tasks = ScenarioTasks
  /\ nextTask = 2
  /\ comments = ScenarioComments
  /\ nextComment = 2
  /\ now = 1
  /\ users = RegisteredUsers
  /\ pending = [i \in Slots |-> NoPending]
  /\ last = NoRequest

\* Updates of a board and of a comment served concurrently with the deletes
\* of their rows and with new comments, the clock running: two workers, the
\* statements of their handlers interleaved in every way.
NextSave ==
  \/ \E i \in Slots, u \in RaceUsers, ms \in {Omitted, Given({1})} :
       BoardPartialUpdate(i, u, 1, Given("t2"), ms)
  \/ \E i \in Slots, u \in RaceUsers : BoardUpdate(i, u, 1, Given("t2"), Given({2}))
  \/ \E i \in Slots : BoardCheckObjectPermissions(i)
  \/ \E i \in Slots : BoardPartialUpdateSave(i)
  \/ \E i \in Slots : BoardPartialUpdateInsert(i)
  \/ \E i \in Slots : BoardPartialUpdateSetMembers(i)
  \/ \E i \in Slots : BoardUpdatePerform(i)
  \/ \E i \in Slots : BoardUpdateAddOwner(i)
  \/ \E i \in Slots, u \in RaceUsers : BoardDestroy(i, u, 1)
  \/ \E i \in Slots : BoardDestroyCollect(i)
  \/ \E i \in Slots : BoardDestroyDelete(i)
  \/ \E i \in Slots, u \in RaceUsers : TaskCommentsPost(i, u, 1, Given("c1"), 0)
  \/ \E i \in Slots : TaskCheckObjectPermissions(i)
  \/ \E i \in Slots : TaskCommentsPostSave(i)
  \/ \E i \in Slots, u \in RaceUsers, pk \in CommentIds :
       CommentPartialUpdate(i, u, 1, pk, Given("c2"), 0)
  \/ \E i \in Slots, u \in RaceUsers, pk \in CommentIds : CommentDestroy(i, u, 1, pk)
  \/ \E i \in Slots : CommentCheckObjectPermissions(i)
  \/ \E i \in Slots : CommentPartialUpdateSave(i)
  \/ \E i \in Slots : CommentPartialUpdatePreSave(i)
  \/ \E i \in Slots : CommentInsert(i)
  \/ \E i \in Slots : CommentDestroyDelete(i)
  \/ Tick
  \/ Reply

SpecSave == InitRows /\ [][NextSave]_vars

\* Members two concurrent requests name.
RoundMembers == Users

\* Two add_member / remove_member requests served concurrently, each by a
\* worker that has served nothing before.
NextMembers ==
  \/ \E i \in Slots, u \in Users, id \in ScenarioBoardIds, m \in RoundMembers :
       pending[i] = NoPending /\ BoardAddMember(i, u, id, m)
  \/ \E i \in Slots, u \in Users, id \in ScenarioBoardIds, m \in RoundMembers :
       pending[i] = NoPending /\ BoardRemoveMember(i, u, id, m)
  \/ \E i \in Slots : BoardMemberCall(i)
  \/ Reply

SpecMembers == InitScenario /\ [][NextMembers]_vars

\* Writing and listing comments with the clock running: comments are written
\* at different times and within one tick; one request at a time.
NextOrder ==
  \/ \E i \in Single, u \in Users, b \in ScenarioBoardIds :
       TaskCreate(i, u, Given(b), Omitted, Omitted, Omitted)
  \/ \E i \in Single : TaskCreateMembership(i)
  \/ \E i \in Single : TaskCreateInsert(i)
  \/ \E i \in Single, u \in Users, t \in TaskIds, c \in Opt(ContentInputs) :
       TaskCommentsPost(i, u, t, c, 0)
  \/ \E i \in Single : TaskCheckObjectPermissions(i)
  \/ \E i \in Single : TaskCommentsPostSave(i)
  \/ \E i \in Single : CommentInsert(i)
  \/ \E i \in Single, u \in Users, t \in TaskIds : TaskCommentsGet(i, u, t)
  \/ \E i \in Single : TaskCommentsGetList(i)
  \/ \E i \in Single, u \in Users, t \in TaskIds : CommentList(i, u, t)
  \/ \E i \in Single : CommentListMembership(i)
  \/ \E i \in Single : CommentListQuery(i)
  \/ Tick
  \/ Reply

SpecOrder == InitScenario /\ [][NextOrder]_vars


----------------------------------------------------------------------------
\* auth_app/api/views.py, register_view.  RegisterSerializer is valid when no
\* user row has the address sent as its email (the unique field's validator
\* compares the address as sent) and the two passwords are equal.  `id` holds
\* the name of the address and `arg` whether its domain is in upper case.
Register(i, email, repeated) ==
  /\ Idle
  /\ Accepts(i)
  /\ LET r == Request("register", 0, email.name, IF email.upper THEN 1 ELSE 0,
                      [email |-> email])
     IN IF (\E u \in DOMAIN users : users[u].email = email) \/ ~repeated
          THEN Refuse(Answer(r, ValidationFailed))
          ELSE Begin(i, r, "create_user", << >>)
  /\ UNCHANGED <<boards, nextBoard, tasks, nextTask, comments, nextComment, now, users>>

\* The unique indexes of auth_app.User (username, email) refuse row.
UserRowRefused(row) ==
  \E u \in DOMAIN users :
    users[u].username = row.username \/ users[u].email = row.email

\* RegisterSerializer.create, User.objects.create_user(...): the INSERT of the
\* user row, with the address normalised by create_user.  It raises
\* IntegrityError, which register_view does not catch, when the username or
\* the normalised email is taken: by an address that differs from a
\* registered one in the case of its domain only, or by a registration since
\* the validation.  create_user leaves is_staff False.
RegisterCreateUser(i) ==
  /\ Idle
  /\ pending[i].op = "register"
  /\ pending[i].pc = "create_user"
  /\ LET row == create_user(pending[i].data.email)
         id == Cardinality(DOMAIN users) + 1
     IN IF UserRowRefused(row)
          THEN /\ users' = users
               /\ Finish(i, Answer(pending[i], ServerError))
          ELSE /\ id \in UserIds
               /\ users' = users @@ (id :> row)
               /\ Goto(i, "token")
  /\ UNCHANGED <<boards, nextBoard, tasks, nextTask, comments, nextComment, now>>

\* RegisterSerializer.create, Token.objects.create(user=user), and the response.
RegisterToken(i) ==
  /\ Idle
  /\ pending[i].op = "register"
  /\ pending[i].pc = "token"
  /\ Finish(i, Answer(pending[i], OK))
  /\ UNCHANGED <<boards, nextBoard, tasks, nextTask, comments, nextComment, now, users>>

----------------------------------------------------------------------------
\* boards_app/api/urls.py, urlpatterns, in the order of the file: the name of
\* the pattern, its path with N for an <int:...> converter, the keyword
\* arguments the converters bind, the viewset and the action of each method.
UrlPatterns ==
  << [name |-> "board-list", path |-> "boards/", binds |-> << >>,
      view |-> "BoardViewSet", actions |-> [get |-> "list", post |-> "create"]],
     [name |-> "board-detail", path |-> "boards/N/", binds |-> <<"pk">>,
      view |-> "BoardViewSet",
      actions |-> [get |-> "retrieve", patch |-> "partial_update", delete |-> "destroy"]],
     [name |-> "board-add-member", path |-> "boards/N/add_member/", binds |-> <<"pk">>,
      view |-> "BoardViewSet", actions |-> [post |-> "add_member"]],
     [name |-> "board-remove-member", path |-> "boards/N/remove_member/", binds |-> <<"pk">>,
      view |-> "BoardViewSet", actions |-> [post |-> "remove_member"]],
     [name |-> "task-list", path |-> "boards/N/tasks/", binds |-> <<"board_id">>,
      view |-> "TaskViewSet", actions |-> [get |-> "list", post |-> "create"]],
     [name |-> "task-detail", path |-> "boards/N/tasks/N/", binds |-> <<"board_id", "pk">>,
      view |-> "TaskViewSet",
      actions |-> [get |-> "retrieve", patch |-> "partial_update", delete |-> "destroy"]],
     [name |-> "task-assigned", path |-> "boards/N/tasks/assigned/", binds |-> <<"board_id">>,
      view |-> "TaskViewSet", actions |-> [get |-> "assigned"]],
     [name |-> "task-reviewer", path |-> "boards/N/tasks/reviewer/", binds |-> <<"board_id">>,
      view |-> "TaskViewSet", actions |-> [get |-> "reviewer"]],
     [name |-> "task-comments", path |-> "boards/N/tasks/N/comments/",
      binds |-> <<"board_id", "pk">>,
      view |-> "TaskViewSet", actions |-> [get |-> "comments", post |-> "comments"]],
     [name |-> "comment-list", path |-> "boards/N/tasks/N/comments/",
      binds |-> <<"board_id", "task_id">>,
      view |-> "CommentViewSet", actions |-> [get |-> "list", post |-> "create"]],
     [name |-> "comment-detail", path |-> "boards/N/tasks/N/comments/N/",
      binds |-> <<"board_id", "task_id", "pk">>,
      view |-> "CommentViewSet",
      actions |-> [get |-> "retrieve", patch |-> "partial_update", delete |-> "destroy"]] >>

\* The paths a client requests.
UrlPaths == {UrlPatterns[k].path : k \in DOMAIN UrlPatterns}

\* URL resolution: the first pattern of the list whose path matches.
Resolution ==
  [path \in UrlPaths |->
     UrlPatterns[CHOOSE k \in DOMAIN UrlPatterns :
                   /\ UrlPatterns[k].path = path
                   /\ \A j \in 1..(k - 1) : UrlPatterns[j].path # path]]
Resolve(path) == Resolution[path]

\* The names of the keyword arguments pattern p passes to the view.
Bound(p) == {p.binds[k] : k \in DOMAIN p.binds}

\* views.py: the handlers each viewset has, ModelViewSet's and its own.
ModelViewSetActions ==
  {"list", "create", "retrieve", "update", "partial_update", "destroy"}
ViewActions ==
  [BoardViewSet |-> ModelViewSetActions \cup {"add_member", "remove_member"},
   TaskViewSet |-> ModelViewSetActions \cup
                     {"assigned_to_me", "reviewing", "comments",
                      "create_task_with_board_in_body"},
   CommentViewSet |-> ModelViewSetActions]

\* The keyword arguments a handler's signature takes: ModelViewSet's handlers
\* take any (**kwargs); add_member(self, request, pk=None) and
\* comments(self, request, task_id=None, pk=None) take the ones they name;
\* assigned_to_me, reviewing and create_task_with_board_in_body (self, request)
\* take none.
KwargNames == {"pk", "board_id", "task_id"}
Accepted(view, action) ==
  IF action \in {"add_member", "remove_member"} THEN {"pk"}
  ELSE IF action = "comments" THEN {"task_id", "pk"}
  ELSE IF action \in {"assigned_to_me", "reviewing", "create_task_with_board_in_body"}
    THEN {}
  ELSE KwargNames

\* The keyword arguments a handler reads with self.kwargs[...], which raises
\* KeyError for a name that is not bound (self.kwargs.get(...) does not).
Reads(view, action) ==
  IF view = "BoardViewSet" /\
     action \in {"retrieve", "update", "partial_update", "destroy", "add_member", "remove_member"}
    THEN {"board_id"}
  ELSE IF view = "TaskViewSet" /\
          action \in {"retrieve", "update", "partial_update", "destroy", "comments"}
    THEN {"task_id"}
  ELSE IF view = "CommentViewSet" /\
          action \in {"retrieve", "update", "partial_update", "destroy"}
    THEN {"pk", "task_id"}
  ELSE {}

\* ViewSetMixin.as_view and APIView.dispatch: the view looks the action up with
\* getattr (AttributeError when the viewset has no such method), calls it with
\* the keyword arguments of the URL (TypeError when its signature does not take
\* one of them), and the handler reads the ones it needs (KeyError).
Dispatches(view, action, names) ==
  /\ action \in ViewActions[view]
  /\ names \subseteq Accepted(view, action)
  /\ Reads(view, action) \subseteq names

\* ViewSetMixin.as_view, view(): before it dispatches on the method the view
\* binds every action of the pattern's map with getattr.  A pattern that
\* names an action the viewset does not have raises AttributeError there,
\* whatever the method of the request.
Unbound(p) == {p.actions[m] : m \in DOMAIN p.actions} \ ViewActions[p.view]

\* A request for `path` with `method` reaches the handler `action` of `view`
\* and the handler runs.
Routed(path, method, view, action) ==
  LET p == Resolve(path)
  IN /\ p.view = view
     /\ Unbound(p) = {}
     /\ method \in DOMAIN p.actions
     /\ p.actions[method] = action
     /\ Dispatches(view, action, Bound(p))

\* The name under which a response of the handler is recorded.
OpName(view, action, method) ==
  IF view = "BoardViewSet" /\ action \in {"add_member", "remove_member"} THEN action
  ELSE IF view = "BoardViewSet" THEN "board_" \o action
  ELSE IF view = "CommentViewSet" THEN "comment_" \o action
  ELSE IF action = "comments" THEN "task_comments_" \o method
  ELSE "task_" \o action

\* A request for a URL of urls.py whose handler does not run: the exception is
\* raised before any statement of the handler, the response is a 500 and no
\* table is touched.  `id` is the last number of the URL.
UrlRequest(u, method, path, id) ==
  /\ Idle
  /\ \E i \in Slots : Free(i)
  /\ LET p == Resolve(path)
     IN IF Unbound(p) # {}
          THEN \E action \in Unbound(p) :
                 Refuse(Resp(OpName(p.view, action, method), u, id, 0, ServerError))
          ELSE /\ method \in DOMAIN p.actions
               /\ ~Dispatches(p.view, p.actions[method], Bound(p))
               /\ Refuse(Resp(OpName(p.view, p.actions[method], method), u, id, 0,
                              ServerError))
  /\ UNCHANGED <<boards, nextBoard, tasks, nextTask, comments, nextComment, now, users>>

\* The methods a client uses.  A request whose method the pattern does not
\* bind, on a pattern whose actions the viewset has, never reaches a handler
\* (405) and leaves nothing behind: no pattern binds put, so through the URLs
\* BoardViewSet.update is not called.
Methods == {"get", "post", "put", "patch", "delete"}
\* The addresses a client registers: one that is registered and one that is
\* not, each with its domain in lower and in upper case.
EmailInputs == {Address(n, up) : n \in {1, 4}, up \in BOOLEAN}
\* The board and task bodies a client sends through the URLs.
RouteLists == {{}, {2}, {4}}
RouteFields ==
  {[status |-> Omitted, priority |-> Omitted, assignee_id |-> Omitted],
   [status |-> Omitted, priority |-> Omitted, assignee_id |-> Given(4)]}

\* The program behind its URLs (core/urls.py and boards_app/api/urls.py), one
\* request at a time: the registration, the requests whose handlers run, and
\* the requests that end before their handler does.  The admin site of
\* core/urls.py serves staff users only, and no statement of the program makes
\* a user staff.
NextRoutes ==
  \/ \E i \in Single, e \in EmailInputs, rp \in BOOLEAN : Register(i, e, rp)
  \/ \E i \in Single : RegisterCreateUser(i)
  \/ \E i \in Single : RegisterToken(i)
  \/ \E u \in DOMAIN users, m \in Methods, path \in UrlPaths, id \in BoardIds :
       UrlRequest(u, m, path, id)
  \/ \E i \in Single, u \in DOMAIN users, ms \in RouteLists :
       /\ Routed("boards/", "post", "BoardViewSet", "create")
       /\ BoardCreate(i, u, "t1", ms)
  \/ \E i \in Single : BoardCreateSetMembers(i)
  \/ \E i \in Single : BoardCreateAddOwner(i)
  \/ \E i \in Single : BoardCreateAddUser(i)
  \/ \E i \in Single, u \in DOMAIN users :
       /\ Routed("boards/", "get", "BoardViewSet", "list")
       /\ BoardList(i, u)
  \/ \E i \in Single : BoardListPrefetchMembers(i)
  \/ \E i \in Single : BoardListPrefetchTasks(i)
  \/ \E i \in Single : BoardListMemberCount(i)
  \/ \E i \in Single : BoardListToDoCount(i)
  \/ \E i \in Single : BoardListHighPrioCount(i)
  \/ \E i \in Single, u \in DOMAIN users, b \in BoardIds, f \in RouteFields :
       /\ Routed("boards/N/tasks/", "post", "TaskViewSet", "create")
       /\ TaskCreate(i, u, Given(b), f.status, f.priority, f.assignee_id)
  \/ \E i \in Single : TaskCreateMembership(i)
  \/ \E i \in Single : TaskCreateInsert(i)
  \/ \E u \in DOMAIN users :
       /\ Routed("boards/N/tasks/", "get", "TaskViewSet", "list")
       /\ TaskList(u)
  \/ \E i \in Single, u \in DOMAIN users, t \in TaskIds, pk \in CommentIds :
       /\ Routed("boards/N/tasks/N/comments/N/", "get", "CommentViewSet", "retrieve")
       /\ CommentRetrieve(i, u, t, pk)
  \/ \E i \in Single, u \in DOMAIN users, t \in TaskIds, pk \in CommentIds,
        c \in Opt(ContentInputs) :
       /\ Routed("boards/N/tasks/N/comments/N/", "patch", "CommentViewSet", "partial_update")
       /\ CommentPartialUpdate(i, u, t, pk, c, 0)
  \/ \E i \in Single, u \in DOMAIN users, t \in TaskIds, pk \in CommentIds :
       /\ Routed("boards/N/tasks/N/comments/N/", "delete", "CommentViewSet", "destroy")
       /\ CommentDestroy(i, u, t, pk)
  \/ \E i \in Single : CommentCheckObjectPermissions(i)
  \/ \E i \in Single : CommentPartialUpdateSave(i)
  \/ \E i \in Single : CommentDestroyDelete(i)
  \/ Reply

\* The databases the URLs are served on: the empty one; and one that holds a
\* task and a comment, rows no URL writes.
InitRoutes == Init \/ InitRows

SpecRoutes == InitRoutes /\ [][NextRoutes]_vars
----------------------------------------------------------------------------
\* The contract's access rule, stated on the tables: u is the owner of board b
\* or is in its member set.
HasBoardAccess(u, b) == u = boards[b].owner \/ u \in boards[b].members

BoardWriteOps ==
  {"board_update", "board_partial_update", "add_member", "remove_member",
   "board_destroy"}

\* C1: whenever the requests begun have been answered (after create, update,
\* add_member and remove_member), every board's owner is in that board's
\* member set.
C1_OwnerInMembers ==
  (\A i \in Slots : Free(i)) =>
    \A b \in DOMAIN boards : boards[b].owner \in boards[b].members

\* C2: a board write (title or member-set edit, add_member, remove_member,
\* delete) is permitted iff the requester is the board's owner; any other
\* requester of an existing board gets NotAuthorized and the board, its member
\* set and its tasks are unchanged.
C2_BoardWriteOwnerOnly ==
  [][(last'.op \in BoardWriteOps /\ last'.id \in DOMAIN boards) =>
       IF last'.user = boards[last'.id].owner
         THEN last'.kind # NotAuthorized
         ELSE /\ last'.kind = NotAuthorized
              /\ boards' = boards
              /\ tasks' = tasks]_vars

\* C3: remove_member whose target is the board's owner fails with
\* InvalidOperation whoever the requester is, and the member set is unchanged.
C3_RemoveOwnerAlwaysInvalid ==
  [][(/\ last'.op = "remove_member"
      /\ last'.id \in DOMAIN boards
      /\ last'.arg = boards[last'.id].owner) =>
       (last'.kind = InvalidOperation /\ boards' = boards)]_vars

\* C4: board get answers NotFound for an id that names no board, whoever
\* asks; NotAuthorized for an existing board when the requester is neither its
\* owner nor in its member set; the board otherwise; and no step of a get
\* changes a table.
C4_BoardGetOrder ==
  [][/\ last'.op = "board_retrieve" =>
          last'.kind = IF last'.id \notin DOMAIN boards THEN NotFound
                       ELSE IF ~HasBoardAccess(last'.user, last'.id)
                         THEN NotAuthorized
                       ELSE OK
     /\ (\E i \in Slots : "board_retrieve" \in {last'.op, pending[i].op, pending'[i].op}) =>
          UNCHANGED <<boards, nextBoard, tasks, nextTask, comments, nextComment>>]_vars

\* C4 witness: a get on an existing board by a user who is neither owner nor
\* member was answered NotAuthorized.
C4_Witness ==
  /\ last.op = "board_retrieve"
  /\ last.id \in DOMAIN boards
  /\ ~HasBoardAccess(last.user, last.id)
  /\ last.kind = NotAuthorized

\* The rows a delete of board b takes with it, stated on the tables.
TasksOn(b) == {t \in DOMAIN tasks : tasks[t].board = b}
CommentsOn(ts) == {c \in DOMAIN comments : comments[c].task \in ts}
\* Table g is table f without the rows in gone, every other row as it was.
Without(f, g, gone) ==
  /\ DOMAIN g = DOMAIN f \ gone
  /\ \A x \in DOMAIN g : g[x] = f[x]

\* C5: the delete of a board by its owner or a member is carried out and
\* removes the board, every task of it and every comment of those tasks and
\* nothing else; a task delete removes the task and exactly its comments in
\* the same way; and a get on a board, task or comment id that names no row
\* (any more) answers NotFound for every requester.
C5_CascadeExact ==
  [][/\ \A b \in ScenarioBoardIds :
          (last'.op = "board_destroy" /\ last'.kind = OK /\ last'.id = b) =>
            LET ts == TasksOn(b)
                cs == CommentsOn(ts)
            IN /\ b \in DOMAIN boards
               /\ Without(boards, boards', {b})
               /\ Without(tasks, tasks', ts)
               /\ Without(comments, comments', cs)
     /\ \A t \in TaskIds :
          (last'.op = "task_destroy" /\ last'.kind = OK /\ last'.id = t) =>
            LET cs == CommentsOn({t})
            IN /\ t \in DOMAIN tasks
               /\ boards' = boards
               /\ Without(tasks, tasks', {t})
               /\ Without(comments, comments', cs)
     /\ (/\ last'.op = "board_destroy"
         /\ last'.id \in DOMAIN boards
         /\ HasBoardAccess(last'.user, last'.id)) => last'.kind = OK
     /\ (last'.op = "board_retrieve" /\ last'.id \notin DOMAIN boards) =>
          last'.kind = NotFound
     /\ (last'.op = "task_retrieve" /\ last'.id \notin DOMAIN tasks) =>
          last'.kind = NotFound
     /\ (last'.op = "comment_retrieve" /\ last'.id \notin DOMAIN comments) =>
          last'.kind = NotFound
    ]_vars

\* C5 witness: a board was deleted, and with it a task and a comment, while a
\* task of the other board and its comment are still there.
C5_Witness ==
  /\ last.op = "board_destroy"
  /\ last.kind = OK
  /\ nextTask = 3
  /\ nextComment = 3
  /\ Cardinality(DOMAIN boards) = 1
  /\ Cardinality(DOMAIN tasks) = 1
  /\ Cardinality(DOMAIN comments) = 1
  /\ \A c \in DOMAIN comments : c = 1 /\ comments[c].task = 1

TaskItemOps == {"task_retrieve", "task_partial_update", "task_destroy"}

\* C6: task get, update and delete answer NotFound for an id that names no
\* task; on an existing task they answer NotAuthorized, leaving the tables
\* unchanged, exactly when the requester is neither owner nor member of the
\* task's board; the assignee plays no part: for an owner or member get and
\* delete succeed, and an update is refused by neither check.
C6_TaskAccess ==
  [][last'.op \in TaskItemOps =>
       LET t == last'.id
           u == last'.user
       IN IF t \notin DOMAIN tasks
            THEN /\ last'.kind = NotFound
                 /\ UNCHANGED <<boards, tasks, comments>>
          ELSE IF ~HasBoardAccess(u, tasks[t].board)
            THEN /\ last'.kind = NotAuthorized
                 /\ UNCHANGED <<boards, tasks, comments>>
          ELSE /\ last'.kind \notin {NotFound, NotAuthorized}
               /\ last'.op = "task_retrieve" => last'.kind = OK
               /\ last'.op = "task_destroy" =>
                    last'.kind = OK /\ t \notin DOMAIN tasks'
               /\ boards' = boards]_vars

\* C6 witness: a member who is neither the board's owner nor the task's
\* assignee updated a task that has an assignee.
C6_Witness ==
  /\ last.op = "task_partial_update"
  /\ last.kind = OK
  /\ last.id \in DOMAIN tasks
  /\ tasks[last.id].assignee \notin {0, last.user}
  /\ tasks[last.id].status = "in-progress"
  /\ last.user # boards[tasks[last.id].board].owner

\* C7: a task create naming a board (with fields that pass validation and an
\* assignee, when one is sent, that is a registered user) answers
\* NotFound when no such board exists, whoever asks, and NotAuthorized when the
\* board exists and the requester is neither its owner nor a member, creating
\* no task in either case; an owner or member gets exactly one new task, on
\* exactly that board.  A create that does not succeed changes no table.
C7_TaskCreateOrder ==
  [][last'.op = "task_create" =>
       LET b == last'.arg
           u == last'.user
       IN /\ last'.kind # OK => UNCHANGED <<boards, tasks, comments>>
          /\ (/\ b # 0
              /\ last'.kind # ValidationFailed
              /\ "assignee_id" \in DOMAIN last'.sent => last'.sent["assignee_id"] \in DOMAIN users) =>
               IF b \notin DOMAIN boards THEN last'.kind = NotFound
               ELSE IF ~HasBoardAccess(u, b) THEN last'.kind = NotAuthorized
               ELSE /\ last'.kind = OK
                    /\ last'.id \notin DOMAIN tasks
                    /\ DOMAIN tasks' = DOMAIN tasks \cup {last'.id}
                    /\ tasks'[last'.id].board = b
                    /\ \A t \in DOMAIN tasks : tasks'[t] = tasks[t]
                    /\ UNCHANGED <<boards, comments>>]_vars

\* C7 witness: a create naming a board that exists no longer (it was deleted)
\* was answered NotFound.
C7_Witness ==
  /\ last.op = "task_create"
  /\ last.arg # 0
  /\ last.arg \notin DOMAIN boards
  /\ last.kind = NotFound

\* C8: no step changes the board of an existing task, whatever board id an
\* update request carries.
C8_TaskBoardFixed ==
  [][\A t \in DOMAIN tasks \cap DOMAIN tasks' : tasks'[t].board = tasks[t].board]_vars

\* C8 witness: a requester with access sent an update carrying the id of an
\* existing board other than the task's, and the task is on its board still.
C8_Witness ==
  /\ last.op = "task_partial_update"
  /\ last.id \in DOMAIN tasks
  /\ last.arg \in DOMAIN boards
  /\ last.arg # tasks[last.id].board
  /\ last.kind \notin {NotFound, NotAuthorized, ValidationFailed}

CommentTaskOps ==
  {"task_comments_get", "task_comments_post", "comment_list", "comment_create"}
CommentCreateOps == {"task_comments_post", "comment_create"}

\* C9: comment list and comment create on a task, by either view, answer
\* NotFound for an unknown task id, NotAuthorized (creating nothing) for a
\* requester without access to the task's board, and succeed for a requester
\* with access, a create adding exactly one comment to that task.  (Requests
\* whose content fails validation are left out.)
C9_CommentAccess ==
  [][(last'.op \in CommentTaskOps /\ last'.kind # ValidationFailed) =>
       LET t == last'.id
           u == last'.user
           new == DOMAIN comments' \ DOMAIN comments
       IN IF t \notin DOMAIN tasks
            THEN last'.kind = NotFound /\ comments' = comments
          ELSE IF ~HasBoardAccess(u, tasks[t].board)
            THEN last'.kind = NotAuthorized /\ comments' = comments
          ELSE /\ last'.kind = OK
               /\ last'.op \notin CommentCreateOps => comments' = comments
               /\ last'.op \in CommentCreateOps =>
                    /\ Cardinality(new) = 1
                    /\ \A c \in new : comments'[c].task = t
                    /\ \A c \in DOMAIN comments : comments'[c] = comments[c]]_vars

\* C10: the author of a new comment is the requester of the create call,
\* whatever author the client sent, and no step changes the author or the task
\* of an existing comment.
C10_AuthorIsCreator ==
  [][/\ \A c \in DOMAIN comments' \ DOMAIN comments :
          /\ last'.op \in CommentCreateOps
          /\ last'.kind = OK
          /\ comments'[c].author = last'.user
          /\ comments'[c].task = last'.id
     /\ \A c \in DOMAIN comments \cap DOMAIN comments' :
          /\ comments'[c].author = comments[c].author
          /\ comments'[c].task = comments[c].task]_vars

\* C10 witness: a create whose request carried another user as author stored
\* the requester as the author.
C10_Witness ==
  /\ last.op = "task_comments_post"
  /\ last.kind = OK
  /\ last.arg \notin {0, last.user}
  /\ \E c \in DOMAIN comments :
       comments[c].author = last.user /\ comments[c].task = last.id

\* C11: a comment is immutable once created: no step changes the content of
\* an existing comment, and a comment goes away only together with its task,
\* through a task delete or the cascade of a board delete.
C11_CommentImmutable ==
  [][\A c \in DOMAIN comments :
       IF c \in DOMAIN comments'
         THEN comments'[c].content = comments[c].content
         ELSE /\ last'.op \in {"task_destroy", "board_destroy"}
              /\ comments[c].task \notin DOMAIN tasks']_vars

\* C12: every derived count in a board list equals the live count when the
\* list is read, whatever creates, updates and deletes came before:
\* ticket_count is the number of the board's tasks, tasks_to_do_count the
\* number of them with status 'to-do', tasks_high_prio_count the number with
\* priority 'high'.
C12_LiveCounts ==
  last.op = "board_list" =>
    \A i \in DOMAIN last.body :
      LET r == last.body[i]
      IN /\ r.id \in DOMAIN boards
         /\ r.ticket_count = Cardinality(TasksOn(r.id))
         /\ r.tasks_to_do_count =
              Cardinality({t \in TasksOn(r.id) : tasks[t].status = "to-do"})
         /\ r.tasks_high_prio_count =
              Cardinality({t \in TasksOn(r.id) : tasks[t].priority = "high"})

\* C12 witness: a list read after two creates and an update or a create with
\* fields shows a board with two tasks, one of them 'to-do' and one 'high'.
C12_Witness ==
  /\ last.op = "board_list"
  /\ \E i \in DOMAIN last.body :
       /\ last.body[i].ticket_count = 2
       /\ last.body[i].tasks_to_do_count = 1
       /\ last.body[i].tasks_high_prio_count = 1

\* C13: the board list of an identity holds exactly the boards whose owner is
\* the identity or whose member set contains it, each once, in every reachable
\* state, those in which an owner is outside the member set of their board
\* included.
C13_ListExactly ==
  last.op = "board_list" =>
    /\ {last.body[i].id : i \in DOMAIN last.body} =
         {b \in DOMAIN boards : HasBoardAccess(last.user, b)}
    /\ \A i, j \in DOMAIN last.body : last.body[i].id = last.body[j].id => i = j

CommentListOps == {"task_comments_get", "comment_list"}

\* C14: a comment list of a task holds all and only the comments of that
\* task, each once, in non-increasing created_at order (newest first),
\* whatever comments were written before on this and on other tasks.
C14_NewestFirst ==
  (last.op \in CommentListOps /\ last.kind = OK) =>
    LET body == last.body
    IN /\ {body[i] : i \in DOMAIN body} = CommentsOn({last.id})
       /\ Len(body) = Cardinality(CommentsOn({last.id}))
       /\ \A i, j \in DOMAIN body :
            i < j => comments[body[i]].created_at >= comments[body[j]].created_at

\* C14 witness: a list of two comments written at different times, while
\* the clock ran on after the second.
C14_Witness ==
  /\ last.op \in CommentListOps
  /\ last.kind = OK
  /\ Len(last.body) = 2
  /\ comments[last.body[1]].created_at > comments[last.body[2]].created_at

\* C18: two comments of one task with equal created_at are listed in
\* descending id order, the later-inserted first.
C18_TiesByIdDescending ==
  (last.op \in CommentListOps /\ last.kind = OK) =>
    \A i, j \in DOMAIN last.body :
      (i < j /\ comments[last.body[i]].created_at = comments[last.body[j]].created_at)
        => last.body[i] > last.body[j]

\* C15: a task created with status and priority omitted has status 'to-do'
\* and priority 'medium' (each default applies when its field is omitted), and
\* in every reachable state every task's status is one of to-do, in-progress,
\* review, done and its priority one of low, medium, high.
C15_DefaultsAndChoices ==
  /\ \A t \in DOMAIN tasks :
       /\ tasks[t].status \in {"to-do", "in-progress", "review", "done"}
       /\ tasks[t].priority \in {"low", "medium", "high"}
  /\ (last.op = "task_create" /\ last.kind = OK) =>
       /\ "status" \notin DOMAIN last.sent => tasks[last.id].status = "to-do"
       /\ "priority" \notin DOMAIN last.sent => tasks[last.id].priority = "medium"

\* C15 witness: a create that sent neither field succeeded, after an earlier
\* task had been given another status and priority.
C15_Witness ==
  /\ last.op = "task_create"
  /\ last.kind = OK
  /\ DOMAIN last.sent = {"board"}
  /\ tasks[last.id].status = "to-do"
  /\ tasks[last.id].priority = "medium"
  /\ \E t \in DOMAIN tasks : tasks[t].status = "in-progress" /\ tasks[t].priority = "high"

\* C16: when a task create (or comment create) runs concurrently with the
\* delete of its board (or task), the create either completes before the
\* delete or is answered NotFound, and no state holds a task whose board does
\* not exist or a comment whose task does not exist.
C16_RaceNotFound ==
  /\ \A t \in DOMAIN tasks : tasks[t].board \in DOMAIN boards
  /\ \A c \in DOMAIN comments : comments[c].task \in DOMAIN tasks
  /\ (last.op = "task_create" /\ last.arg # 0 /\ last.arg \notin DOMAIN boards) =>
       last.kind = NotFound
  /\ (last.op = "task_comments_post" /\ last.id \notin DOMAIN tasks) =>
       last.kind = NotFound

\* C17: every board, task or comment operation that fails reports exactly one
\* of NotFound, NotAuthorized, ValidationFailed and InvalidOperation: no
\* response is of any other kind, such as an internal server error.
C17_FourErrorKinds ==
  last.kind \in {OK, NotFound, NotAuthorized, ValidationFailed, InvalidOperation}

\* C19: every task the task list returns belongs to a board of which the
\* requester is owner or member.
C19_TaskListAccess ==
  last.op = "task_list" =>
    \A i \in DOMAIN last.body :
      /\ last.body[i] \in DOMAIN tasks
      /\ HasBoardAccess(last.user, tasks[last.body[i]].board)

\* Both workers have answered an add_member or remove_member call on one board.
RoundDone ==
  /\ \A i \in Slots : pending[i].op \in MemberOps /\ pending[i].pc = "answered"
  /\ pending[1].id = pending[2].id

\* The member set after call c is served alone on a board with row b:
\* add_member and remove_member call self.get_object() first (views.py:134
\* and 151), which raises KeyError on self.kwargs['board_id'] (views.py:94),
\* so no statement after it runs and the member set is the one before.
RunCall(c, b) == b.members

\* The member set after c1 and then c2 are served, one after the other.
Serial(c1, c2, b) == RunCall(c2, [b EXCEPT !.members = RunCall(c1, b)])

====
